---------------------------- MODULE Spec2Model ----------------------------
(***************************************************************************)
(* A model of cri-archive-lib: the CPK reader (cpk/reader.rs), the P5R     *)
(* per-file decryptor (cpk/encrypt/p5r.rs), the CRILAYLA decoder           *)
(* (cpk/compress/layla.rs), the table decryptor (cpk/encrypt/table.rs),    *)
(* the slab free list (cpk/free_list.rs) and the table parser (schema/).   *)
(*                                                                         *)
(* The specifications of the module:                                       *)
(*   Spec          one CpkReader over one archive (get_files/extract_file) *)
(*   SpecFreeList  one FreeList used by one thread (allocate / node drop)  *)
(*   SpecThreads   one FreeList shared by several threads, one atomic      *)
(*                 memory step per action                                  *)
(*   SpecThreadsFair  SpecThreads with fair scheduling of the threads      *)
(*   SpecLayla     LaylaDecompressorImpl::decompress, one loop iteration   *)
(*                 per action                                              *)
(*   SpecCursor    the bit readers of LaylaDecompressorCursor on one cursor *)
(*   SpecCrypt     TableDecryptor and P5RDecryptor on one byte buffer      *)
(*   SpecTable     HighTable::new over one table allocation, and the two   *)
(*                 string pools' get_string                                *)
(* A specification leaves the variables of the components it does not call *)
(* at their initial values.                                                *)
(***************************************************************************)
EXTENDS Integers, Sequences, FiniteSets, Bags, TLC

VARIABLES
    \* ---- cpk/free_list.rs ----
    used,        \* FreeList.used: the set of set bit indices of [u64; 4]
    nodes,       \* the live FreeListNode values, a bag
    fl,          \* history: the last FreeList operation and what it saw
    \* ---- threads sharing the FreeList ----
    lock,        \* FreeList.lock (AtomicBool)
    pc,          \* per thread: its position inside allocate / deallocate
    loc,         \* per thread: the locals of the call in progress
    \* ---- cpk/compress/layla.rs ----
    lay,         \* the state of one LaylaDecompressorImpl::decompress run
    cur,         \* one LaylaDecompressorCursor over a few bytes, and its last read
    \* ---- cpk/encrypt/table.rs, cpk/encrypt/p5r.rs ----
    cry,         \* one byte buffer and the decryptor calls made on it
    \* ---- cpk/reader.rs ----
    archive,     \* the byte source the reader was built over
    start_pos,   \* CpkReader.start_pos
    stream_pos,  \* the position of CpkReader.stream
    content_ofs, \* CpkReader.content_ofs
    toc_table,   \* CpkReader.toc_table
    decryption,  \* CpkReader.decryption.is_some()
    rd,          \* history: the last reader call, its result and its I/O
    \* ---- schema/ (header.rs, columns.rs, rows.rs, strings.rs) ----
    tab          \* one table allocation, the HighTable parsed from it, one lookup

flVars     == <<used, nodes, fl>>
thVars     == <<lock, pc, loc>>
layVars    == <<lay>>
cursorVars == <<cur>>
cryptVars  == <<cry>>
readerVars == <<archive, start_pos, stream_pos, content_ofs, toc_table, decryption, rd>>
schemaVars == <<tab>>
vars       == <<used, nodes, fl, lock, pc, loc, lay, cur, cry,
                archive, start_pos, stream_pos, content_ofs, toc_table, decryption, rd,
                tab>>

(***************************************************************************)
(* Bounds of the model.                                                    *)
(***************************************************************************)
MaxNodes   == 3   \* live FreeListNodes at a time
NumThreads == 2   \* threads sharing one FreeList
MaxLive    == 2   \* nodes live or being allocated at a time among the threads
MaxCmpLen  == 3   \* length of the exhaustively enumerated compressed windows
MaxUncSize == 3   \* uncompressed_size of the exhaustively enumerated inputs
MaxTableLen == 70 \* length of the exhaustively enumerated buffers of the decryptors
MaxCalls   == 2   \* calls of one decryptor on one buffer
MaxCols    == 2   \* columns of the exhaustively enumerated tables
MaxRows    == 2   \* rows of the exhaustively enumerated tables
MaxPoolLen == 4   \* length of the exhaustively enumerated string pools

(***************************************************************************)
(* Integer helpers: the shifts, masks and XOR of u8/usize arithmetic.      *)
(***************************************************************************)
Min(a, b) == IF a < b THEN a ELSE b

Pow2(n) == 2 ^ n

Shr(x, n) == x \div Pow2(n)

Bit(x, i) == (x \div Pow2(i)) % 2

Xor8(a, b) ==
    LET X(i) == ((Bit(a, i) + Bit(b, i)) % 2) * Pow2(i)
    IN  X(0) + X(1) + X(2) + X(3) + X(4) + X(5) + X(6) + X(7)

(***************************************************************************)
(* cpk/free_list.rs                                                        *)
(***************************************************************************)
SLAB_SIZE   == 67108864
BLOCK_SHIFT == 18
USIZE_MAX   == -1       \* usize::MAX, the "no block" answer; never a block index

BlockBytes == 262144    \* 1 << BLOCK_SHIFT

\* BIT_MASK_U8[n], as the set of bit positions it has set
BIT_MASK_U8(n) == 0 .. (n - 1)

bit_mask_u8(n) == BIT_MASK_U8(n)

\* (m << s) as u8, m a set of bit positions
ShlU8(m, s) == {p + s : p \in m} \cap (0 .. 7)

\* res << s on a u64, res a set of bit positions
ShlU64(res, s) == {p + s : p \in res} \cap (0 .. 63)

\* *(self.used.as_ptr() as *mut u8).add(k): byte k of the bitmap (little endian)
UsedByte(u, k) == {b \in 0 .. 7 : (8 * k + b) \in u}

\* the bitmap with byte k replaced
WithByte(u, k, bits) == (u \ {8 * k + b : b \in 0 .. 7}) \cup {8 * k + b : b \in bits}

into_block(size) == (size + BlockBytes - 1) \div BlockBytes

bit_bounds_check(start, len) == len = 0 \/ start + len > 255

RECURSIVE OccBytes(_, _, _, _, _)
\* the byte-wise loop of check_occupation: n iterations from byte k
OccBytes(u, res, diff, k, n) ==
    IF n = 0 THEN [res |-> res, byte |-> k]
    ELSE OccBytes(u, ShlU64(res, diff) \cup UsedByte(u, k), 8, k + 1, n - 1)

\* FreeList::check_occupation; the u64 result as the set of its set bits
check_occupation(u, start, len0) ==
    IF bit_bounds_check(start, len0) THEN {}
    ELSE LET len1  == Min(len0, 64)
             byte0 == Shr(start, 3)
             bit   == start % 8
             diff  == Min(len1, 8 - bit)
             res1  == IF bit # 0 THEN UsedByte(u, byte0) \cap ShlU8(bit_mask_u8(diff), bit)
                      ELSE {}
             byte1 == IF bit # 0 THEN byte0 + 1 ELSE byte0
             len2  == IF bit # 0 THEN len1 - diff ELSE len1
             mid   == OccBytes(u, res1, diff, byte1, Shr(len2, 3))
             endb  == len2 % 8
         IN  IF endb # 0
             THEN ShlU64(mid.res, endb) \cup (UsedByte(u, mid.byte) \cap bit_mask_u8(endb))
             ELSE mid.res

RECURSIVE FillBytes(_, _, _, _)
\* the byte-wise loop of bit_on / bit_off: n whole bytes from byte k set to bits
FillBytes(u, k, n, bits) ==
    IF n = 0 THEN u ELSE FillBytes(WithByte(u, k, bits), k + 1, n - 1, bits)

\* FreeList::bit_on
bit_on(u, start, len0) ==
    IF bit_bounds_check(start, len0) THEN u
    ELSE LET byte0 == Shr(start, 3)
             bit   == start % 8
             diff  == Min(len0, 8 - bit)
             u1    == IF bit # 0
                      THEN WithByte(u, byte0,
                               UsedByte(u, byte0) \cup ShlU8(bit_mask_u8(diff), bit))
                      ELSE u
             byte1 == IF bit # 0 THEN byte0 + 1 ELSE byte0
             len1  == IF bit # 0 THEN len0 - diff ELSE len0
             u2    == FillBytes(u1, byte1, Shr(len1, 3), 0 .. 7)
             byte2 == byte1 + Shr(len1, 3)
             endb  == len1 % 8
         IN  IF endb # 0
             THEN WithByte(u2, byte2, UsedByte(u2, byte2) \cup bit_mask_u8(endb))
             ELSE u2

\* FreeList::bit_off
bit_off(u, start, len0) ==
    IF bit_bounds_check(start, len0) THEN u
    ELSE LET byte0 == Shr(start, 3)
             bit   == start % 8
             diff  == Min(len0, 8 - bit)
             u1    == IF bit # 0
                      THEN WithByte(u, byte0,
                               UsedByte(u, byte0) \ ShlU8(bit_mask_u8(diff), bit))
                      ELSE u
             byte1 == IF bit # 0 THEN byte0 + 1 ELSE byte0
             len1  == IF bit # 0 THEN len0 - diff ELSE len0
             u2    == FillBytes(u1, byte1, Shr(len1, 3), {})
             byte2 == byte1 + Shr(len1, 3)
             endb  == len1 % 8
         IN  IF endb # 0
             THEN WithByte(u2, byte2, UsedByte(u2, byte2) \ bit_mask_u8(endb))
             ELSE u2

RECURSIVE ScanRounds(_, _, _, _)
\* at most n rounds of the loop of get_free_block_index from start:
\* loop { if check_occupation(start, size) == 0 { break }; start += size }
ScanRounds(u, size, start, n) ==
    IF check_occupation(u, start, size) = {} THEN [found |-> TRUE, start |-> start]
    ELSE IF n = 1 THEN [found |-> FALSE, start |-> start + size]
    ELSE ScanRounds(u, size, start + size, n - 1)

RECURSIVE FreeScan(_, _, _)
\* the whole loop, sixteen rounds at a time. check_occupation answers 0 once
\* start + size > 255, so the loop ends for every size
FreeScan(u, size, start) ==
    LET r == ScanRounds(u, size, start, 16)
    IN  IF r.found THEN r.start ELSE FreeScan(u, size, r.start)

\* BasicSlidingWindowAllocator::get_free_block_index
get_free_block_index(u, size) ==
    LET start == FreeScan(u, size, 0)
    IN  IF start + size <= 255 THEN start ELSE USIZE_MAX

\* FreeListNode::new_managed: ptr = slab + (start << BLOCK_SHIFT), as its offset
new_managed(start, size) ==
    [managed |-> TRUE, ptr |-> start * BlockBytes, size |-> size]

\* FreeListNode::new_unmanaged: a heap block of its own
new_unmanaged(size) ==
    [managed |-> FALSE, ptr |-> 0, size |-> size]

\* FreeList::allocate, lock aside: the node returned and the bitmap left
allocate(u, size) ==
    LET blocks == into_block(size)
        start  == get_free_block_index(u, blocks)
    IN  IF start = USIZE_MAX
        THEN [node |-> new_unmanaged(size), used |-> u]
        ELSE [node |-> new_managed(start, size), used |-> bit_on(u, start, blocks)]

\* FreeList::deallocate, lock aside: the bitmap left
deallocate(u, p) ==
    bit_off(u, Shr(p.ptr, BLOCK_SHIFT), into_block(p.size))

\* Drop for FreeListNode: a managed node goes back to its list, a heap node to the heap
DropNode(u, p) == IF p.managed THEN deallocate(u, p) ELSE u

\* the blocks a live node covers: [start, start + ceil(size / 262144))
NodeBlocks(p) ==
    IF p.managed
    THEN {Shr(p.ptr, BLOCK_SHIFT) + i : i \in 0 .. (into_block(p.size) - 1)}
    ELSE {}

RECURSIVE SumBlocks(_, _)
\* the sum of ceil(size / 262144) over the managed nodes of the bag b, S the
\* node values still to add
SumBlocks(b, S) ==
    IF S = {} THEN 0
    ELSE LET p == CHOOSE q \in S : TRUE
         IN  (IF p.managed THEN b[p] * into_block(p.size) ELSE 0) + SumBlocks(b, S \ {p})

\* the request sizes of the model, in bytes: 0, the test's 0x10 and 0xc0000,
\* 64 and 65 blocks, the whole slab, and one byte more
AllocSizes ==
    {0, 16, 786432, 64 * BlockBytes, 65 * BlockBytes, SLAB_SIZE, SLAB_SIZE + 1}

NoNode == [managed |-> FALSE, ptr |-> 0, size |-> 0]

FlInit ==
    /\ used = {}
    /\ nodes = EmptyBag
    /\ fl = [op |-> "new", size |-> 0, before |-> {}, node |-> NoNode]

\* list.allocate(size), the node kept alive
Allocate(size) ==
    /\ BagCardinality(nodes) < MaxNodes
    /\ LET r == allocate(used, size)
       IN  /\ used' = r.used
           /\ nodes' = nodes (+) SetToBag({r.node})
           /\ fl' = [op |-> "allocate", size |-> size, before |-> used, node |-> r.node]

\* drop(p) of a live node p. fl.op = "allocate_drop" when p is the node the
\* call just before returned
Drop(p) ==
    /\ BagIn(p, nodes)
    /\ used' = DropNode(used, p)
    /\ nodes' = nodes (-) SetToBag({p})
    /\ fl' = IF fl.op = "allocate" /\ p = fl.node
             THEN [op |-> "allocate_drop", size |-> fl.size, before |-> fl.before, node |-> p]
             ELSE [op |-> "drop", size |-> 0, before |-> {}, node |-> NoNode]

(***************************************************************************)
(* Threads sharing one FreeList: allocate and deallocate cut at their      *)
(* atomic steps (the swap of acquire, the bitmap search, the bitmap write, *)
(* the store of unacquire).                                                *)
(***************************************************************************)
Threads == 1 .. NumThreads

\* the request sizes of the threads: one block, three blocks, more than the slab
ThreadSizes == {786432, SLAB_SIZE + 1}

\* positions at which a thread is between acquire and unacquire
Critical == {"a_search", "a_bit_on", "a_unacq", "a_unacq_heap", "d_bit_off", "d_unacq"}

NoLocals == [size |-> 0, blocks |-> 0, start |-> 0, seen |-> {}, node |-> NoNode]

ThInit ==
    /\ lock = FALSE
    /\ pc = [t \in Threads |-> "idle"]
    /\ loc = [t \in Threads |-> NoLocals]

\* the number of allocate calls in progress
Pending == Cardinality({t \in Threads : pc[t] \in {"a_acquire", "a_search", "a_bit_on",
                                                   "a_unacq", "a_unacq_heap"}})

\* a lock whose acquire stores true without testing the value it replaces
acquire_store(l) == [lock |-> TRUE, entered |-> TRUE]

\* FreeList::acquire, one round of while self.lock.swap(true, Acquire) {}:
\* the value the swap leaves and whether the loop is left
acquire(l) == [lock |-> TRUE, entered |-> ~l]

\* an unacquire that leaves the lock as it finds it
unacquire_keep(l) == l

\* FreeList::unacquire: self.lock.store(false, Release)
unacquire(l) == FALSE

\* allocate(size) is called: blocks = into_block(size), then acquire
TAllocate(t, size) ==
    /\ pc[t] = "idle"
    /\ BagCardinality(nodes) + Pending < MaxLive
    /\ pc' = [pc EXCEPT ![t] = "a_acquire"]
    /\ loc' = [loc EXCEPT ![t] = [NoLocals EXCEPT !.size = size,
                                                  !.blocks = into_block(size)]]
    /\ UNCHANGED <<lock, used, nodes>>

\* one round of the spin loop of acquire
TAcquire(t) ==
    /\ pc[t] \in {"a_acquire", "d_acquire"}
    /\ LET r == acquire(lock)
       IN  /\ lock' = r.lock
           /\ pc' = [pc EXCEPT ![t] = IF ~r.entered THEN pc[t]
                                      ELSE IF pc[t] = "a_acquire" THEN "a_search"
                                      ELSE "d_bit_off"]
    /\ UNCHANGED <<loc, used, nodes>>

\* allocate: get_free_block_index reads the bitmap
TSearch(t) ==
    /\ pc[t] = "a_search"
    /\ LET start == get_free_block_index(used, loc[t].blocks)
       IN  /\ loc' = [loc EXCEPT ![t].start = start, ![t].seen = used]
           /\ pc' = [pc EXCEPT ![t] = IF start = USIZE_MAX THEN "a_unacq_heap"
                                      ELSE "a_bit_on"]
    /\ UNCHANGED <<lock, used, nodes>>

\* allocate: bit_on writes the bitmap
TBitOn(t) ==
    /\ pc[t] = "a_bit_on"
    /\ used' = bit_on(used, loc[t].start, loc[t].blocks)
    /\ pc' = [pc EXCEPT ![t] = "a_unacq"]
    /\ UNCHANGED <<lock, loc, nodes>>

\* allocate: unacquire, then the node is built and returned
TAllocateReturn(t) ==
    /\ pc[t] \in {"a_unacq", "a_unacq_heap"}
    /\ lock' = unacquire(lock)
    /\ nodes' = nodes (+) SetToBag({IF pc[t] = "a_unacq"
                                    THEN new_managed(loc[t].start, loc[t].size)
                                    ELSE new_unmanaged(loc[t].size)})
    /\ pc' = [pc EXCEPT ![t] = "idle"]
    /\ loc' = [loc EXCEPT ![t] = NoLocals]
    /\ UNCHANGED used

\* a live node is dropped: a managed node calls deallocate (blocks =
\* into_block(p.size), then acquire), a heap node is freed
TDrop(t, p) ==
    /\ pc[t] = "idle"
    /\ BagIn(p, nodes)
    /\ nodes' = nodes (-) SetToBag({p})
    /\ pc' = [pc EXCEPT ![t] = IF p.managed THEN "d_acquire" ELSE "idle"]
    /\ loc' = [loc EXCEPT ![t] = IF p.managed
                                 THEN [NoLocals EXCEPT !.node = p,
                                                       !.blocks = into_block(p.size)]
                                 ELSE NoLocals]
    /\ UNCHANGED <<lock, used>>

\* deallocate: bit_off writes the bitmap
TBitOff(t) ==
    /\ pc[t] = "d_bit_off"
    /\ used' = bit_off(used, loc[t].node.ptr \div BlockBytes, loc[t].blocks)
    /\ pc' = [pc EXCEPT ![t] = "d_unacq"]
    /\ UNCHANGED <<lock, loc, nodes>>

\* deallocate: unacquire
TDeallocateReturn(t) ==
    /\ pc[t] = "d_unacq"
    /\ lock' = unacquire(lock)
    /\ pc' = [pc EXCEPT ![t] = "idle"]
    /\ loc' = [loc EXCEPT ![t] = NoLocals]
    /\ UNCHANGED <<used, nodes>>

(***************************************************************************)
(* CRILAYLA decoder (cpk/compress/layla.rs).  A byte buffer is a sequence  *)
(* of values 0..255 and a pointer into it is a 0-based index, which may    *)
(* leave the buffer on either side since the code checks no bound.         *)
(***************************************************************************)
LAYLA_HEADER_MAGIC == <<67, 82, 73, 76, 65, 89, 76, 65>>   \* "CRILAYLA", little endian u64
UNCOMPRESSED_DATA_SIZE == 256
MIN_COPY_LENGTH == 3
DEFAULT_PIPELINE_LENGTH == 3
EXTRA_PIPELINE_LENGTH == 8
LaylaHeaderSize == 16

\* a byte of memory that was allocated and never written
Uninit == -1

\* what a read outside its buffer, or of a byte never written, may return
GarbageBytes == {0, 90}

\* BIT_MASK[n]
bit_mask(n) == Pow2(n) - 1

\* a little endian u32 field of a #[repr(C)] struct laid over the bytes
U32At(input, i) ==
    input[i + 1] + 256 * input[i + 2] + 65536 * input[i + 3] + 16777216 * input[i + 4]

LeU32(n) == [k \in 1 .. 4 |-> (n \div Pow2(8 * (k - 1))) % 256]

\* LaylaHeader::from_stream
LaylaHeader(input) ==
    [magic |-> SubSeq(input, 1, 8),
     uncompressed_size |-> U32At(input, 8),
     uncompressed_header_offset |-> U32At(input, 12)]

\* unsafe { *ptr } on the input: index i of the whole file buffer
Deref(input, g, i) == IF i >= 0 /\ i < Len(input) THEN input[i + 1] ELSE g

\* LaylaDecompressorCursor::read_1
read_1(input, g, c) ==
    LET n == IF c.bits_left # 0
             THEN [cdata |-> c.cdata, bits_left |-> c.bits_left - 1]
             ELSE [cdata |-> c.cdata - 1, bits_left |-> 7]
    IN  [val |-> Bit(Deref(input, g, n.cdata), n.bits_left) # 0,
         cdata |-> n.cdata, bits_left |-> n.bits_left]

\* LaylaDecompressorCursor::read_13
read_13(input, g, c) ==
    LET p0 == IF c.bits_left = 0 THEN c.cdata - 1 ELSE c.cdata
        b0 == IF c.bits_left = 0 THEN 8 ELSE c.bits_left
        bits1 == 13 - b0
        res1 == Deref(input, g, p0) % Pow2(b0)
        p1 == p0 - 1
        bit_round == Min(bits1, 8)
        res2 == res1 * Pow2(bit_round)
                  + (Shr(Deref(input, g, p1), 8 - bit_round) % Pow2(bit_round))
        bits2 == bits1 - bit_round
        p2 == p1 - 1
    IN  IF bits2 = 0
        THEN [val |-> res2, cdata |-> p1, bits_left |-> 8 - bit_round]
        ELSE [val |-> res2 * Pow2(bits2)
                        + (Shr(Deref(input, g, p2), 8 - bits2) % Pow2(bits2)),
              cdata |-> p2, bits_left |-> 8 - bits2]

\* LaylaDecompressorCursor::read_8 (bits_left is left as it is)
read_8(input, g, c) ==
    LET p == c.cdata - 1
        extra_bit == 8 - c.bits_left
    IN  [val |-> IF c.bits_left # 0
                 THEN (((Deref(input, g, p + 1) % Pow2(c.bits_left)) * Pow2(extra_bit)) % 256)
                        + (Shr(Deref(input, g, p), 8 - extra_bit) % Pow2(extra_bit))
                 ELSE Deref(input, g, p),
         cdata |-> p, bits_left |-> c.bits_left]

\* LaylaDecompressorCursor::read_2
read_2(input, g, c) ==
    LET new_byte == c.bits_left = 0
    IN  IF c.bits_left >= 2 \/ new_byte
        THEN LET bl == IF new_byte THEN 6 ELSE c.bits_left - 2
                 p == IF new_byte THEN c.cdata - 1 ELSE c.cdata
             IN  [val |-> Shr(Deref(input, g, p), bl) % 4, cdata |-> p, bits_left |-> bl]
        ELSE [val |-> (Deref(input, g, c.cdata) % 2) * 2
                        + Shr(Deref(input, g, c.cdata - 1), 7),
              cdata |-> c.cdata - 1, bits_left |-> 7]

\* LaylaDecompressorCursor::read_max_8: the two rounds of the for loop
read_max_8(input, g, c, bits) ==
    LET p0 == IF c.bits_left = 0 THEN c.cdata - 1 ELSE c.cdata
        b0 == IF c.bits_left = 0 THEN 8 ELSE c.bits_left
        round1 == Min(bits, b0)
        res1 == Shr(Deref(input, g, p0), b0 - round1) % Pow2(round1)
        bits1 == bits - round1
        p1 == p0 - 1
        round2 == Min(bits1, 8)
    IN  IF bits1 = 0
        THEN [val |-> res1, cdata |-> p0, bits_left |-> b0 - round1]
        ELSE [val |-> ((res1 * Pow2(round2)) % 256)
                        + (Shr(Deref(input, g, p1), 8 - round2) % Pow2(round2)),
              cdata |-> p1, bits_left |-> 8 - round2]

\* *p = v on the output buffer; a store outside the buffer leaves the buffer
\* as it is and is recorded
Poke(st, i, v) ==
    [st EXCEPT !.out = IF i >= 0 /\ i < Len(@) THEN [@ EXCEPT ![i + 1] = v] ELSE @,
               !.wmin = Min(@, i),
               !.oob = @ \/ i < 0 \/ i >= Len(st.out)]

\* *p on the output buffer
Peek(st, g, i) ==
    IF i >= 0 /\ i < Len(st.out) /\ st.out[i + 1] # Uninit THEN st.out[i + 1] ELSE g

\* *p = *p.add(offset)
CopyByte(st, g, i, offset) == Poke(st, i, Peek(st, g, i + offset))

\* for _ in 0..n { *pwrite = *pwrite.add(offset); pwrite = pwrite.sub(1); }
\* The bytes are stored from pwrite downwards and each one is loaded from
\* offset above its place, so byte i of the run takes the byte at the first
\* place i + offset, i + 2 * offset, ... above the run, as the buffer held it
\* before the loop.
CopyLoop(st, g, offset, n) ==
    LET pw == st.pwrite
        lo == pw - n + 1
        Src(i) == Peek(st, g, i + offset * (((pw - i) \div offset) + 1))
    IN  IF n <= 0 THEN st
        ELSE [out |-> [j \in 1 .. Len(st.out) |->
                          IF j - 1 >= lo /\ j - 1 <= pw THEN Src(j - 1) ELSE st.out[j]],
              pwrite |-> pw - n,
              cdata |-> st.cdata,
              bits_left |-> st.bits_left,
              wmin |-> Min(st.wmin, lo),
              oob |-> st.oob \/ lo < 0 \/ pw >= Len(st.out)]

\* loop { length += read_8(); if this_level != u8::MAX { break; } }
RECURSIVE ReadLengthBytes(_, _, _, _)
ReadLengthBytes(input, g, c, length) ==
    LET r == read_8(input, g, c)
    IN  IF r.val # 255 THEN [r EXCEPT !.val = length + @]
        ELSE ReadLengthBytes(input, g, r, length + r.val)

\* a length that takes the three bits whatever the two bits were
ReadLengthAll(input, g, c) ==
    LET l2 == read_2(input, g, c)
        l3 == read_max_8(input, g, l2, 3)
    IN  [l3 EXCEPT !.val = MIN_COPY_LENGTH + l2.val + @]

\* the variable length of a copy command: 2, 3, 5 bits, then whole bytes
ReadLength(input, g, c) ==
    LET l2 == read_2(input, g, c)
        l3 == read_max_8(input, g, l2, 3)
        l5 == read_max_8(input, g, l3, 5)
    IN  IF l2.val # 3 THEN [l2 EXCEPT !.val = MIN_COPY_LENGTH + @]
        ELSE IF l3.val # 7 THEN [l3 EXCEPT !.val = MIN_COPY_LENGTH + 3 + @]
        ELSE IF l5.val # 31 THEN [l5 EXCEPT !.val = MIN_COPY_LENGTH + 3 + 7 + @]
        ELSE ReadLengthBytes(input, g, l5, MIN_COPY_LENGTH + 3 + 7 + 31)

\* the compressed branch of the loop body; f is the cursor after the flag
DecodeCopy(input, g, st, f) ==
    LET o == read_13(input, g, f)
        offset == o.val + MIN_COPY_LENGTH
        l == ReadLength(input, g, o)
        length == l.val
        pw == st.pwrite
        s0 == [st EXCEPT !.cdata = l.cdata, !.bits_left = l.bits_left]
        s3 == CopyByte(CopyByte(CopyByte(s0, g, pw, offset), g, pw - 1, offset),
                       g, pw - 2, offset)
        s5 == CopyByte(CopyByte(CopyByte(s3, g, pw - 3, offset), g, pw - 4, offset),
                       g, pw - 5, offset)
        s8 == CopyByte(CopyByte(s5, g, pw - 6, offset), g, pw - 7, offset)
    IN  IF length < EXTRA_PIPELINE_LENGTH
        THEN CopyLoop([s3 EXCEPT !.pwrite = @ - DEFAULT_PIPELINE_LENGTH], g, offset,
                      length - DEFAULT_PIPELINE_LENGTH)
        ELSE CopyLoop([s8 EXCEPT !.pwrite = @ - EXTRA_PIPELINE_LENGTH], g, offset,
                      length - EXTRA_PIPELINE_LENGTH)

\* the uncompressed branch: *pwrite = cursor.read_8(); pwrite = pwrite.sub(1)
DecodeLiteral(input, g, st, f) ==
    LET r == read_8(input, g, f)
    IN  [Poke(st, st.pwrite, r.val) EXCEPT !.pwrite = @ - 1,
                                           !.cdata = r.cdata,
                                           !.bits_left = r.bits_left]

\* one round of while pwrite >= pmin
LaylaStep(input, g, st) ==
    LET f == read_1(input, g, st)
    IN  IF f.val THEN DecodeCopy(input, g, st, f) ELSE DecodeLiteral(input, g, st, f)

\* LaylaDecompressorImpl::decompress up to the loop: the 0x100 bytes after the
\* compressed data go to the start of the output buf, pwrite is its last byte,
\* the cursor stands on the first byte after the compressed data
LaylaBegin(input, g, buf) ==
    LET header == LaylaHeader(input)
        uncmp_data == LaylaHeaderSize + header.uncompressed_header_offset
    IN  [out |-> [j \in 1 .. Len(buf) |->
                     IF j <= UNCOMPRESSED_DATA_SIZE
                     THEN Deref(input, g, uncmp_data + j - 1) ELSE buf[j]],
         pwrite |-> UNCOMPRESSED_DATA_SIZE + header.uncompressed_size - 1,
         cdata |-> uncmp_data,
         bits_left |-> 0,
         wmin |-> Len(buf),
         oob |-> FALSE]

RECURSIVE LaylaLoop(_, _, _)
LaylaLoop(input, g, st) ==
    IF st.pwrite >= UNCOMPRESSED_DATA_SIZE
    THEN LaylaLoop(input, g, LaylaStep(input, g, st)) ELSE st

\* LaylaDecompressor::decompress(input, free_list): the node, the bitmap
\* allocate leaves, and the decoder's final state
LaylaDecompress(input, g, u) ==
    LET header == LaylaHeader(input)
        a == allocate(u, header.uncompressed_size + UNCOMPRESSED_DATA_SIZE)
        buf == [j \in 1 .. a.node.size |-> Uninit]
    IN  [node |-> a.node, used |-> a.used,
         st |-> LaylaLoop(input, g, LaylaBegin(input, g, buf))]

\* a CRILAYLA file: header, compressed data cmp, 0x100 raw bytes
TailByte(j) == (3 * j + 1) % 256

MkInput(usize, cmp) ==
    LAYLA_HEADER_MAGIC \o LeU32(usize) \o LeU32(Len(cmp)) \o cmp
        \o [j \in 1 .. UNCOMPRESSED_DATA_SIZE |-> TailByte(j - 1)]

\* three literals 0x41 0x42 0x43 and one copy of length 3 from offset 3
ValidCmp == <<0, 0, 112, 136, 144, 32>>

CmpBytes == {0, 127, 128, 255}

RECURSIVE SeqsUpTo(_, _)
SeqsUpTo(S, n) ==
    IF n = 0 THEN {<<>>}
    ELSE LET T == SeqsUpTo(S, n - 1)
         IN  T \cup {Append(t, x) : t \in {t \in T : Len(t) = n - 1}, x \in S}

\* three literals, then a copy from offset 3 of length 5 (two more bits 10)
\* and of length 9 (two bits 11, three bits 011): the run overlaps its source
OverlapCmp5 == <<64, 0, 112, 136, 144, 32>>

OverlapCmp9 == <<108, 0, 112, 136, 144, 32>>

LaylaInputs ==
    (SeqsUpTo(CmpBytes, MaxCmpLen) \X (0 .. MaxUncSize))
        \cup {<<ValidCmp, 6>>, <<ValidCmp, 4>>, <<OverlapCmp5, 8>>, <<OverlapCmp9, 12>>}

NoSt == [out |-> <<>>, pwrite |-> 0, cdata |-> 0, bits_left |-> 0, wmin |-> 0, oob |-> FALSE]

LayInit ==
    \E i \in LaylaInputs :
        lay = [phase |-> "new", cmp |-> i[1], usize |-> i[2], st |-> NoSt,
               from |-> NoSt, g |-> 0]

\* decompress is entered: the output node is allocated and the prefix copied
LaylaStart(g) ==
    /\ lay.phase = "new"
    /\ LET input == MkInput(lay.usize, lay.cmp)
           a == allocate(used, LaylaHeader(input).uncompressed_size + UNCOMPRESSED_DATA_SIZE)
           buf == [j \in 1 .. a.node.size |-> Uninit]
       IN  /\ lay' = [lay EXCEPT !.phase = "loop", !.st = LaylaBegin(input, g, buf)]
           /\ used' = a.used
           /\ nodes' = nodes (+) SetToBag({a.node})
           /\ UNCHANGED fl

\* one round of the loop that takes the uncompressed branch; lay.from keeps
\* the state the round started from and lay.g what its wild reads returned
LaylaLiteral(g) ==
    /\ lay.phase = "loop"
    /\ lay.st.pwrite >= UNCOMPRESSED_DATA_SIZE
    /\ LET input == MkInput(lay.usize, lay.cmp)
       IN  /\ ~read_1(input, g, lay.st).val
           /\ lay' = [lay EXCEPT !.st = LaylaStep(input, g, lay.st),
                                 !.from = lay.st, !.g = g]

\* one round of the loop that takes the compressed branch
LaylaCopy(g) ==
    /\ lay.phase = "loop"
    /\ lay.st.pwrite >= UNCOMPRESSED_DATA_SIZE
    /\ LET input == MkInput(lay.usize, lay.cmp)
       IN  /\ read_1(input, g, lay.st).val
           /\ lay' = [lay EXCEPT !.st = LaylaStep(input, g, lay.st),
                                 !.from = lay.st, !.g = g]

\* the loop is left and decompress returns
LaylaReturn ==
    /\ lay.phase = "loop"
    /\ lay.st.pwrite < UNCOMPRESSED_DATA_SIZE
    /\ lay' = [lay EXCEPT !.phase = "done"]

(***************************************************************************)
(* The bit readers of LaylaDecompressorCursor called on their own, as the  *)
(* tests of layla.rs call them: a cursor over four bytes, one call.        *)
(***************************************************************************)
\* the byte values of the stream: all clear, all set, and the 0xAA, 0x93 and
\* 0xCA of the tests
CursorBytes == {0, 255, 170, 147, 202}

\* LaylaDecompressorCursor::new(stream.as_ptr().add(3), bits_left): the reads
\* of one call touch byte 3 and the three bytes below it
CursorInit ==
    \E b0, b1, b2, b3 \in CursorBytes, bl \in 0 .. 7 :
        cur = [op |-> "new", bits |-> 0, mem |-> <<b0, b1, b2, b3>>,
               from |-> [cdata |-> 3, bits_left |-> bl],
               cdata |-> 3, bits_left |-> bl, val |-> 0, err |-> "ok"]

\* read_max_8: res << bit_round on the u8 res shifts by the whole width of the
\* type when the first round takes 8 bits
read_max_8_shl_overflow(c, bits) ==
    Min(bits, IF c.bits_left = 0 THEN 8 ELSE c.bits_left) >= 8

\* one call of read_2, read_8, read_13 or read_max_8(bits) on the cursor.  A
\* shift by the width of the type panics in a build with overflow checks (the
\* dev and test profiles) and shifts by 0 in a build without (release)
CursorCall(op, bits) ==
    /\ cur.op = "new"
    /\ (op = "read_2" /\ bits = 2) \/ (op = "read_8" /\ bits = 8)
          \/ (op = "read_13" /\ bits = 13) \/ (op = "read_max_8" /\ bits \in 1 .. 8)
    /\ LET c == cur.from
           r == CASE op = "read_2" -> read_2(cur.mem, 0, c)
                  [] op = "read_8" -> read_8(cur.mem, 0, c)
                  [] op = "read_13" -> read_13(cur.mem, 0, c)
                  [] OTHER -> read_max_8(cur.mem, 0, c, bits)
       IN  \E overflow_checks \in BOOLEAN :
              IF op = "read_max_8" /\ overflow_checks /\ read_max_8_shl_overflow(c, bits)
              THEN cur' = [cur EXCEPT !.op = op, !.bits = bits, !.err = "panic",
                                      !.cdata = IF c.bits_left = 0 THEN @ - 1 ELSE @,
                                      !.bits_left = IF c.bits_left = 0 THEN 8 ELSE @]
              ELSE cur' = [cur EXCEPT !.op = op, !.bits = bits, !.val = r.val,
                                      !.cdata = r.cdata, !.bits_left = r.bits_left]

(***************************************************************************)
(* P5R data decryption (cpk/encrypt/p5r.rs).  The crate builds for x86_64  *)
(* (utils/intrinsics exists for that target only); target names the loop   *)
(* the cfg! tests of decrypt_in_place and decrypt_utf_in_place select in a *)
(* build.                                                                  *)
(***************************************************************************)
Targets == {"avx2", "sse3", "u64"}

ENCRYPTED_DATA_OFFSET == 32
NUM_BYTES_TO_DECRYPT == 1024
ENCRYPT_MARK == "CRI_CFATTR:ENCRYPT"

\* P5RDecryptor::is_encrypted
is_encrypted(file) == file.user_string = ENCRYPT_MARK

\* the loop shared by decrypt_in_place_avx2, _sse3 and _u64 on input[0x20..]:
\* for i in 0..next_block, block i of size bytes takes the XOR with block
\* i + next_block.  Every block is stored once and the blocks loaded as the
\* second operand lie above every block stored, so a byte stored is the XOR of
\* two bytes as the call found them
XorBlocks(input, size, next_block) ==
    [j \in 1 .. Len(input) |->
        IF j - 1 < size * next_block
        THEN Xor8(input[j], input[j + size * next_block]) ELSE input[j]]

\* P5RDecryptor::decrypt_in_place_avx2, NEXT_BLOCK_AVX2 blocks of a __m256i
p5r_decrypt_in_place_avx2(input) == XorBlocks(input, 32, NUM_BYTES_TO_DECRYPT \div 32)

\* a sse3 loop that counts its blocks as the avx2 loop does
p5r_decrypt_in_place_sse3_count32(input) == XorBlocks(input, 16, NUM_BYTES_TO_DECRYPT \div 32)

\* P5RDecryptor::decrypt_in_place_sse3, NEXT_BLOCK_SSE3 blocks of a __m128i
p5r_decrypt_in_place_sse3(input) == XorBlocks(input, 16, NUM_BYTES_TO_DECRYPT \div 16)

\* P5RDecryptor::decrypt_in_place_u64, NEXT_BLOCK_U64 blocks of a u64
p5r_decrypt_in_place_u64(input) == XorBlocks(input, 8, NUM_BYTES_TO_DECRYPT \div 8)

\* a decrypt_in_place that passes only the buffers shorter than 0x820 through
decrypt_in_place_lt(target, input) ==
    IF Len(input) < 2080 THEN input
    ELSE SubSeq(input, 1, ENCRYPTED_DATA_OFFSET)
           \o p5r_decrypt_in_place_u64(SubSeq(input, ENCRYPTED_DATA_OFFSET + 1, Len(input)))

\* P5RDecryptor::decrypt_in_place: buffers of 0x820 bytes or less are left as
\* they are, on a longer one the loop of the build target runs on input[0x20..]
decrypt_in_place(target, input) ==
    IF Len(input) <= 2080 THEN input
    ELSE LET rest == SubSeq(input, ENCRYPTED_DATA_OFFSET + 1, Len(input))
         IN  SubSeq(input, 1, ENCRYPTED_DATA_OFFSET)
               \o (CASE target = "avx2" -> p5r_decrypt_in_place_avx2(rest)
                      [] target = "sse3" -> p5r_decrypt_in_place_sse3(rest)
                      [] OTHER -> p5r_decrypt_in_place_u64(rest))

(***************************************************************************)
(* Table decryption (cpk/encrypt/table.rs).  An i8 is an integer in        *)
(* -128..127, a vector register the sequence of its byte lanes.            *)
(***************************************************************************)
\* xor as u8
AsU8(x) == x % 256

\* i8::wrapping_mul
wrapping_mul(a, b) ==
    LET r == (a * b) % 256 IN IF r >= 128 THEN r - 256 ELSE r

\* the lanes of _mm256_setr_epi8(...) in decrypt_in_place_avx2
MULTIPLIERS_AVX2 ==
    <<1, 21, -71, 45, -79, -123, -23, 29, 97,
      -11, 25, 13, 17, 101, 73, -3, -63, -43,
      121, -19, 113, 69, -87, -35, 33, -75,
      -39, -51, -47, 37, 9, -67>>

\* the lanes of _mm_setr_epi8(...) in decrypt_in_place_sse3
MULTIPLIERS_SSE3 ==
    <<1, 21, -71, 45, -79, -123, -23, 29, 97,
      -11, 25, 13, 17, 101, 73, -3>>

\* multiply_bytes_avx / multiply_bytes_sse on byte lanes a and b: per 16 bit
\* lane, even = mullo_epi16(a, b), odd = mullo_epi16(a >> 8, b >> 8), and the
\* result is (odd << 8) | (even & 0xff)
multiply_bytes(a, b) ==
    LET lo(v, k) == v[2 * k - 1]
        hi(v, k) == v[2 * k]
        even(k) == (lo(a, k) * lo(b, k)
                      + 256 * ((lo(a, k) * hi(b, k) + hi(a, k) * lo(b, k)) % 256)) % 65536
        odd(k) == (hi(a, k) * hi(b, k)) % 65536
        lane(k) == ((odd(k) * 256) % 65536) + (even(k) % 256)
    IN  [j \in 1 .. Len(a) |->
            IF j % 2 = 1 THEN lane((j + 1) \div 2) % 256 ELSE lane(j \div 2) \div 256]

RECURSIVE MulRounds(_, _, _)
\* x after n rounds of x = x.wrapping_mul(m), the rounds taken in halves:
\* n rounds by m are n / 2 rounds by m * m, and one round by m more when n is odd
MulRounds(x, m, n) ==
    IF n = 0 THEN x
    ELSE MulRounds(IF n % 2 = 1 THEN wrapping_mul(x, m) ELSE x, wrapping_mul(m, m), n \div 2)

\* a scalar loop that adds the seed to the byte where the code takes the XOR
decrypt_in_place_u8_add(input, start, xor) ==
    [j \in 1 .. Len(input) |->
        IF j - 1 >= start
        THEN (input[j] + AsU8(MulRounds(xor, 21, j - 1 - start))) % 256 ELSE input[j]]

\* TableDecryptor::decrypt_in_place_u8: byte i takes the XOR with the seed as
\* i - start rounds of xor = xor.wrapping_mul(21) have left it
decrypt_in_place_u8(input, start, xor) ==
    [j \in 1 .. Len(input) |->
        IF j - 1 >= start
        THEN Xor8(input[j], AsU8(MulRounds(xor, 21, j - 1 - start))) ELSE input[j]]

\* the loop shared by the block variants: block i of `lanes` bytes, for i in
\* start..(len / lanes), takes the XOR with the lanes pattern[seed] and the
\* seed is multiplied by advance after each block; then the scalar tail
DecryptBlocks(input, start, xor, lanes, advance, pattern) ==
    LET nblk == Len(input) \div lanes
        seed(i) == MulRounds(xor, advance, i - start)
        blk(j) == (j - 1) \div lanes
        done == [j \in 1 .. Len(input) |->
                    IF blk(j) >= start /\ blk(j) < nblk
                    THEN Xor8(input[j], pattern[seed(blk(j))][((j - 1) % lanes) + 1])
                    ELSE input[j]]
    IN  decrypt_in_place_u8(done, nblk * lanes, IF nblk >= start THEN seed(nblk) ELSE xor)

\* TableDecryptor::decrypt_in_place_avx2
table_decrypt_in_place_avx2(input, start, xor) ==
    LET pattern == [x \in -128 .. 255 |->
          multiply_bytes([k \in 1 .. 32 |-> AsU8(x)],
                         [k \in 1 .. 32 |-> AsU8(MULTIPLIERS_AVX2[k])])]
    IN  DecryptBlocks(input, start, xor, 32, -127, pattern)

\* TableDecryptor::decrypt_in_place_sse3
table_decrypt_in_place_sse3(input, start, xor) ==
    LET pattern == [x \in -128 .. 255 |->
          multiply_bytes([k \in 1 .. 16 |-> AsU8(x)],
                         [k \in 1 .. 16 |-> AsU8(MULTIPLIERS_SSE3[k])])]
    IN  DecryptBlocks(input, start, xor, 16, -63, pattern)

\* a u64 loop that advances the seed by 21 where the code advances it by 97
table_decrypt_in_place_u64_adv21(input, start, xor) ==
    LET pattern == [x \in -128 .. 255 |->
          <<AsU8(x), AsU8(wrapping_mul(x, 21)), AsU8(wrapping_mul(x, -71)),
                        AsU8(wrapping_mul(x, 45)), AsU8(wrapping_mul(x, -79)),
                        AsU8(wrapping_mul(x, -123)), AsU8(wrapping_mul(x, -23)),
                        AsU8(wrapping_mul(x, 29))>>]
    IN  DecryptBlocks(input, start, xor, 8, 21, pattern)

\* TableDecryptor::decrypt_in_place_u64: the u64 stored little endian
table_decrypt_in_place_u64(input, start, xor) ==
    LET pattern == [x \in -128 .. 255 |->
          <<AsU8(x), AsU8(wrapping_mul(x, 21)), AsU8(wrapping_mul(x, -71)),
                        AsU8(wrapping_mul(x, 45)), AsU8(wrapping_mul(x, -79)),
                        AsU8(wrapping_mul(x, -123)), AsU8(wrapping_mul(x, -23)),
                        AsU8(wrapping_mul(x, 29))>>]
    IN  DecryptBlocks(input, start, xor, 8, 97, pattern)

\* TableDecryptor::decrypt_utf_in_place
decrypt_utf_in_place(target, input) ==
    LET xor == 95
    IN  CASE target = "avx2" -> table_decrypt_in_place_avx2(input, 0, xor)
          [] target = "sse3" -> table_decrypt_in_place_sse3(input, 0, xor)
          [] OTHER -> table_decrypt_in_place_u64(input, 0, xor)

\* TableDecryptor::decrypt_utf: Vec::with_capacity gives a vector of length 0,
\* copy_nonoverlapping copies result.len() bytes into it, and the slice
\* decrypted in place is the vector at that length
decrypt_utf(target, input) ==
    LET result == <<>>
        copied == [j \in 1 .. Len(result) |-> input[j]]
    IN  decrypt_utf_in_place(target, copied)

(***************************************************************************)
(* The decryptors called on one buffer, as the tests of table.rs and       *)
(* p5r.rs call them: the same function once and again.                     *)
(***************************************************************************)
\* the contents of the buffers: i & 0xff as P5RData::new fills it, bytes that
\* differ 0x400 apart, and all bits set
BytePattern(p, i) ==
    CASE p = 0 -> i % 256
      [] p = 1 -> (7 * i + 3 * (i \div 1024) + 11) % 256
      [] OTHER -> 255

\* the buffers: every length up to MaxTableLen, and lengths around the 0x820
\* of P5RDecryptor (0x820, the 0x821 of P5RData, and a longer one)
CryptInit ==
    \E n \in (0 .. MaxTableLen) \cup {2080, 2081, 2200}, p \in 0 .. 2, target \in Targets :
        /\ n > MaxTableLen => p < 2
        /\ cry = [target |-> target, fn |-> "none", calls |-> 0,
                  input |-> [j \in 1 .. n |-> BytePattern(p, j - 1)],
                  buf |-> [j \in 1 .. n |-> BytePattern(p, j - 1)]]

\* fn is called on the buffer, the call before (if any) was of fn too
CryptCall(fn, out) ==
    /\ cry.fn \in {"none", fn}
    /\ cry.calls < MaxCalls
    /\ cry' = [cry EXCEPT !.fn = fn, !.calls = @ + 1, !.buf = out]

\* TableDecryptor::decrypt_utf_in_place(&mut buf)
DecryptUtfInPlace ==
    /\ Len(cry.input) <= MaxTableLen
    /\ CryptCall("decrypt_utf_in_place", decrypt_utf_in_place(cry.target, cry.buf))

\* buf = TableDecryptor::decrypt_utf(&buf)
DecryptUtf == CryptCall("decrypt_utf", decrypt_utf(cry.target, cry.buf))

\* P5RDecryptor::decrypt_in_place(&mut buf)
P5RDecryptInPlace == CryptCall("decrypt_in_place", decrypt_in_place(cry.target, cry.buf))

(***************************************************************************)
(* CPK reader (cpk/reader.rs).  An archive is a byte source of a given     *)
(* length; tables are kept as the HighTable their bytes parse to, file     *)
(* content byte by byte.                                                   *)
(***************************************************************************)
DEFAULT_OFFSET == 2147483647     \* u64::MAX, the largest value of the offset type

\* self.content_ofs + file.file_offset() where the sum leaves u64
AddU64(a, b) ==
    IF a = DEFAULT_OFFSET THEN (IF b = 0 THEN DEFAULT_OFFSET ELSE b - 1) ELSE a + b

\* CpkFile::new
CpkFile(directory, file_name, file_offset, file_size, extract_size, user_string) ==
    [directory |-> directory, file_name |-> file_name, file_offset |-> file_offset,
     file_size |-> file_size, extract_size |-> extract_size, user_string |-> user_string]

\* the records of the archives below: a short stored file, a stored file and
\* an ENCRYPT marked file of 0x821 bytes, a CRILAYLA file, an empty file
FileA == CpkFile("data", "a.bin", 192, 5, 5, "<NULL>")
FileB == CpkFile("data", "b.bin", 208, 2081, 2081, "<NULL>")
FileC == CpkFile("data", "c.bin", 2304, 2081, 2081, ENCRYPT_MARK)
FileD == CpkFile("data", "d.bin", 4400, 278, 262, "<NULL>")
FileE == CpkFile("data", "e.bin", 4688, 0, 0, "<NULL>")
Records == {FileA, FileB, FileC, FileD, FileE}

\* a cell of a row: RowValue
Cell(type, v) == [type |-> type, v |-> v]
NoneCell == Cell("None", 0)

\* a column of the root table with the cell row 0 stores for it
RootCol(name, flags, cell) == [name |-> name, flags |-> flags, cell |-> cell]
U64Col(name, v) == RootCol(name, {"NAME", "ROW_STORAGE"}, Cell("UInt64", v))

\* the root table: HighTable of the container at the start of the CPK
RootTable(cols) == [state |-> "ok", size |-> 48, columns |-> cols, rows |-> <<>>]

\* a column of the TOC table: its name and its default value
TocCol(name) == [name |-> name, default |-> NoneCell]
TocColumns ==
    <<TocCol("DirName"), TocCol("FileName"), TocCol("FileSize"),
      TocCol("ExtractSize"), TocCol("FileOffset"), TocCol("UserString")>>

\* the TOC row of a record, cell by cell in the order of TocColumns
TocRow(f) ==
    <<Cell("String", f.directory), Cell("String", f.file_name),
      Cell("UInt32", f.file_size), Cell("UInt32", f.extract_size),
      Cell("UInt64", f.file_offset), Cell("String", f.user_string)>>

FileSeq == <<FileA, FileB, FileC, FileD, FileE>>

GoodRows == [i \in 1 .. Len(FileSeq) |-> TocRow(FileSeq[i])]

\* FileSize of the second row stored as a 64 bit cell
WrongVariantRows == [GoodRows EXCEPT ![2][3] = Cell("UInt64", 2081)]

TocTable(cols, rows) == [state |-> "ok", size |-> 160, columns |-> cols, rows |-> rows]

\* a container whose bytes end before its declared size
TruncatedTable == [state |-> "truncated", size |-> 160, columns |-> <<>>, rows |-> <<>>]

BothOffsets(toc, content) == <<U64Col("TocOffset", toc), U64Col("ContentOffset", content)>>

\* the archives: where the root table stands, the tables by position, the
\* position file offsets count from, the length of the byte source
MkArchive(root_pos, root, toc_pos, toc, base, valid) ==
    [root_pos |-> root_pos, tables |-> (root_pos :> root) @@ (toc_pos :> toc),
     base |-> base, len |-> 8448, valid |-> valid]

\* a TOC whose columns stand in another order, DirName and UserString being
\* columns without row storage that carry a default string
DefaultColumns ==
    <<TocCol("FileName"), [name |-> "DirName", default |-> Cell("String", "common")],
      TocCol("FileOffset"), TocCol("FileSize"), TocCol("ExtractSize"),
      [name |-> "UserString", default |-> Cell("String", "<NULL>")]>>

DefaultRows ==
    [i \in 1 .. Len(FileSeq) |->
        <<Cell("String", FileSeq[i].file_name), NoneCell,
          Cell("UInt64", FileSeq[i].file_offset), Cell("UInt32", FileSeq[i].file_size),
          Cell("UInt32", FileSeq[i].extract_size), NoneCell>>]

ArchiveNames ==
    {"content_first", "toc_first", "no_toc_offset", "no_content_offset",
     "toc_truncated", "toc_wrong_variant", "toc_no_user_string", "root_truncated",
     "toc_defaults", "toc_no_file_size_empty", "toc_before_content"}

Archive(n) ==
    CASE n = "content_first" ->
           MkArchive(0, RootTable(BothOffsets(8192, 64)), 8192,
                     TocTable(TocColumns, GoodRows), 64, TRUE)
      [] n = "toc_first" ->
           MkArchive(16, RootTable(<<U64Col("ContentOffset", 2048), U64Col("TocOffset", 80)>>),
                     80, TocTable(TocColumns, GoodRows), 80, TRUE)
      [] n = "no_toc_offset" ->
           MkArchive(0, RootTable(<<U64Col("ContentOffset", 64)>>), 8192,
                     TocTable(TocColumns, GoodRows), 64, FALSE)
      [] n = "no_content_offset" ->
           MkArchive(0, RootTable(<<U64Col("TocOffset", 8192)>>), 8192,
                     TocTable(TocColumns, GoodRows), 64, FALSE)
      [] n = "toc_truncated" ->
           MkArchive(0, RootTable(BothOffsets(8192, 64)), 8192, TruncatedTable, 64, FALSE)
      [] n = "toc_wrong_variant" ->
           MkArchive(0, RootTable(BothOffsets(8192, 64)), 8192,
                     TocTable(TocColumns, WrongVariantRows), 64, FALSE)
      [] n = "toc_no_user_string" ->
           MkArchive(0, RootTable(BothOffsets(8192, 64)), 8192,
                     TocTable(SubSeq(TocColumns, 1, 5),
                              [i \in 1 .. Len(GoodRows) |-> SubSeq(GoodRows[i], 1, 5)]),
                     64, FALSE)
      [] n = "toc_before_content" ->
           MkArchive(16, RootTable(BothOffsets(80, 2048)), 80,
                     TocTable(TocColumns, GoodRows), 80, TRUE)
      [] n = "toc_defaults" ->
           MkArchive(0, RootTable(BothOffsets(8192, 64)), 8192,
                     TocTable(DefaultColumns, DefaultRows), 64, TRUE)
      [] n = "toc_no_file_size_empty" ->
           MkArchive(0, RootTable(BothOffsets(8192, 64)), 8192,
                     TocTable(<<TocCol("DirName"), TocCol("FileName"), TocCol("ExtractSize"),
                                TocCol("FileOffset"), TocCol("UserString")>>, <<>>),
                     64, FALSE)
      [] OTHER ->
           MkArchive(0, TruncatedTable, 8192, TocTable(TocColumns, GoodRows), 64, FALSE)

\* the CRILAYLA file of ValidCmp, 6 bytes when decoded
ValidFile == MkInput(6, ValidCmp)

\* the byte at position p of an archive whose file offsets count from base:
\* the CRILAYLA file where FileD lies, other content by a formula on the position
StreamByte(base, p) ==
    LET q == p - base - FileD.file_offset
    IN  IF q >= 0 /\ q < FileD.file_size
        THEN ValidFile[q + 1]
        ELSE (7 * (p - base) + 3) % 256

\* TableContainer::new followed by HighTable::new at position pos: the table,
\* the position the stream is left at and the number of bytes read
ReadTable(a, pos) ==
    LET t == IF pos \in DOMAIN a.tables THEN a.tables[pos] ELSE TruncatedTable
    IN  IF t.state = "ok"
        THEN [ok |-> TRUE, table |-> t, pos |-> pos + 16 + t.size, nread |-> 16 + t.size]
        ELSE [ok |-> FALSE, table |-> t, pos |-> a.len,
              nread |-> IF pos < a.len THEN a.len - pos ELSE 0]

RECURSIVE RootScanCached(_, _, _, _)
\* a loop that stops as soon as a content offset is cached
RootScanCached(cols, i, toc_offset, content) ==
    IF i > Len(cols) \/ content # DEFAULT_OFFSET
    THEN [toc_offset |-> toc_offset, content_ofs |-> content]
    ELSE LET col == cols[i]
             hit == {"NAME", "ROW_STORAGE"} \subseteq col.flags /\ col.cell.type = "UInt64"
         IN  IF hit /\ col.name = "TocOffset"
             THEN RootScanCached(cols, i + 1, col.cell.v, content)
             ELSE IF hit /\ col.name = "ContentOffset"
             THEN RootScanCached(cols, i + 1, toc_offset, col.cell.v)
             ELSE RootScanCached(cols, i + 1, toc_offset, content)

\* get_files, the loop over the columns of the root table zipped with row 0:
\* the TocOffset found and the content offset the reader is left with
RECURSIVE RootScan(_, _, _, _)
RootScan(cols, i, toc_offset, content) ==
    IF i > Len(cols) \/ (toc_offset # DEFAULT_OFFSET /\ content # DEFAULT_OFFSET)
    THEN [toc_offset |-> toc_offset, content_ofs |-> content]
    ELSE LET col == cols[i]
             hit == {"NAME", "ROW_STORAGE"} \subseteq col.flags /\ col.cell.type = "UInt64"
         IN  IF hit /\ col.name = "TocOffset"
             THEN RootScan(cols, i + 1, col.cell.v, content)
             ELSE IF hit /\ col.name = "ContentOffset"
             THEN RootScan(cols, i + 1, toc_offset, col.cell.v)
             ELSE RootScan(cols, i + 1, toc_offset, content)

\* TocTableIndices::new: the index (from 1) of the last column of that name,
\* usize::MAX where there is none
ColumnIndex(cols, name) ==
    LET S == {i \in 1 .. Len(cols) : cols[i].name = name}
    IN  IF S = {} THEN USIZE_MAX ELSE CHOOSE i \in S : \A j \in S : j <= i

TocTableIndices(cols) ==
    [dir_name |-> ColumnIndex(cols, "DirName"),
     file_name |-> ColumnIndex(cols, "FileName"),
     file_size |-> ColumnIndex(cols, "FileSize"),
     extract_size |-> ColumnIndex(cols, "ExtractSize"),
     file_offset |-> ColumnIndex(cols, "FileOffset"),
     user_string |-> ColumnIndex(cols, "UserString")]

\* a row reader that takes a None cell for the empty string
StringNoDefault(col, cell) ==
    IF cell.type = "String" THEN [ok |-> TRUE, v |-> cell.v]
    ELSE IF cell.type = "None" THEN [ok |-> TRUE, v |-> ""]
    ELSE [ok |-> FALSE, v |-> ""]

\* Row::cpk_get_string_may_default: a String cell, or None with a String default
StringMayDefault(col, cell) ==
    IF cell.type = "String" THEN [ok |-> TRUE, v |-> cell.v]
    ELSE IF cell.type = "None" /\ col.default.type = "String"
    THEN [ok |-> TRUE, v |-> col.default.v]
    ELSE [ok |-> FALSE, v |-> ""]

\* the body of the loop over the TOC rows for one row: indexing with
\* usize::MAX panics, a cell of another variant is the error NoFileName
RowToFile(cols, ix, row) ==
    IF ix.dir_name = USIZE_MAX THEN [err |-> "panic"]
    ELSE IF ~StringMayDefault(cols[ix.dir_name], row[ix.dir_name]).ok THEN [err |-> "NoFileName"]
    ELSE IF ix.file_name = USIZE_MAX THEN [err |-> "panic"]
    ELSE IF row[ix.file_name].type # "String" THEN [err |-> "NoFileName"]
    ELSE IF ix.file_offset = USIZE_MAX THEN [err |-> "panic"]
    ELSE IF row[ix.file_offset].type # "UInt64" THEN [err |-> "NoFileName"]
    ELSE IF ix.file_size = USIZE_MAX THEN [err |-> "panic"]
    ELSE IF row[ix.file_size].type # "UInt32" THEN [err |-> "NoFileName"]
    ELSE IF ix.extract_size = USIZE_MAX THEN [err |-> "panic"]
    ELSE IF row[ix.extract_size].type # "UInt32" THEN [err |-> "NoFileName"]
    ELSE IF ix.user_string = USIZE_MAX THEN [err |-> "panic"]
    ELSE IF ~StringMayDefault(cols[ix.user_string], row[ix.user_string]).ok
    THEN [err |-> "NoFileName"]
    ELSE [err |-> "ok",
          file |-> CpkFile(StringMayDefault(cols[ix.dir_name], row[ix.dir_name]).v,
                           row[ix.file_name].v, row[ix.file_offset].v,
                           row[ix.file_size].v, row[ix.extract_size].v,
                           StringMayDefault(cols[ix.user_string], row[ix.user_string]).v)]

\* the loop over the TOC rows: the records, or what the first failing row gives
TocFiles(toc) ==
    LET ix == TocTableIndices(toc.columns)
        res == [i \in 1 .. Len(toc.rows) |-> RowToFile(toc.columns, ix, toc.rows[i])]
        bad == {i \in 1 .. Len(res) : res[i].err # "ok"}
    IN  IF bad = {}
        THEN [err |-> "ok", files |-> [i \in 1 .. Len(res) |-> res[i].file]]
        ELSE [err |-> res[CHOOSE i \in bad : \A j \in bad : i <= j].err, files |-> <<>>]

\* a get_files that keeps ContentOffset whatever TocOffset is
ContentBaseKeep(toc_offset, content) == content

\* get_files: if toc_offset < self.content_ofs { self.content_ofs = toc_offset }
ContentBase(toc_offset, content) == IF toc_offset < content THEN toc_offset ELSE content

\* an extract_file that takes every content offset for a cataloged one
GuardNever(content) == FALSE

\* extract_file's guard: the content offset is still the one new_inner set
GetFilesNotCalled(content) == content = DEFAULT_OFFSET

\* LaylaDecompressor::is_compressed: the first 8 bytes against the magic.  The
\* 8 byte load is not bounded by the length of the buffer: on a shorter buffer
\* it runs past the allocation, which either faults or compares whatever
\* follows
is_compressed(input) ==
    IF Len(input) >= 8
    THEN {IF SubSeq(input, 1, 8) = LAYLA_HEADER_MAGIC THEN "true" ELSE "false"}
    ELSE {"false", "ub"}

NoFile == CpkFile("", "", 0, 0, 0, "")

\* what the first get_files returned and left: its result, the content offset
\* and the ordinal of the HighTable in toc_table its records point into
NoCatalog == [err |-> "none", files |-> <<>>, base |-> 0, table |-> 0]

\* what the last call on the reader did, and what has happened on it so far:
\* seq tells a first get_files from a repeated one and whether an
\* extract_file came between, tables counts the HighTables stored into
\* toc_table (2 for two or more)
RdNew ==
    [op |-> "new", err |-> "ok", files |-> <<>>, file |-> NoFile, nread |-> 0,
     read |-> <<>>, handed |-> <<>>, out_len |-> 0,
     ever_called |-> FALSE, cat_failed |-> FALSE, has_read |-> FALSE,
     first |-> NoCatalog, seq |-> "new", tables |-> 0]

\* CpkReader::new / new_p5r: new_inner asks the stream for its position
ReaderInit ==
    /\ archive \in ArchiveNames
    /\ start_pos = Archive(archive).root_pos
    /\ stream_pos = start_pos
    /\ content_ofs = DEFAULT_OFFSET
    /\ toc_table = "None"
    /\ decryption \in BOOLEAN
    /\ rd = RdNew

\* the reader can be called: the last call neither panicked nor left defined behaviour
Callable == rd.err \notin {"panic", "ub"}

GetFilesDone(err, files, nread, base, stored) ==
    LET tables == IF stored THEN Min(rd.tables + 1, 2) ELSE rd.tables
    IN  rd' = [RdNew EXCEPT !.op = "get_files", !.err = err, !.files = files, !.nread = nread,
                            !.ever_called = TRUE, !.cat_failed = (err # "ok"),
                            !.has_read = rd.has_read \/ nread > 0,
                            !.tables = tables,
                            !.first = IF rd.ever_called THEN rd.first
                                      ELSE [err |-> err, files |-> files, base |-> base,
                                            table |-> tables],
                            !.seq = IF ~rd.ever_called THEN "first"
                                    ELSE IF rd.seq \in {"extracted", "repeat_extracted"}
                                    THEN "repeat_extracted"
                                    ELSE "repeat"]

\* CpkReader::get_files
GetFiles ==
    /\ Callable
    /\ LET a == Archive(archive)
           root == ReadTable(a, start_pos)
           scan == RootScan(root.table.columns, 1, DEFAULT_OFFSET, content_ofs)
           base == ContentBase(scan.toc_offset, scan.content_ofs)
           toc == ReadTable(a, scan.toc_offset)
           out == TocFiles(toc.table)
       IN  IF ~root.ok
           THEN /\ GetFilesDone("Io", <<>>, root.nread, content_ofs, FALSE)
                /\ stream_pos' = root.pos
                /\ UNCHANGED <<content_ofs, toc_table>>
           ELSE IF scan.toc_offset = DEFAULT_OFFSET
           THEN /\ GetFilesDone("MissingTocOffset", <<>>, root.nread, scan.content_ofs, FALSE)
                /\ stream_pos' = root.pos
                /\ content_ofs' = scan.content_ofs
                /\ UNCHANGED toc_table
           ELSE IF scan.content_ofs = DEFAULT_OFFSET
           THEN /\ GetFilesDone("MissingContentOffset", <<>>, root.nread, content_ofs, FALSE)
                /\ stream_pos' = root.pos
                /\ UNCHANGED <<content_ofs, toc_table>>
           ELSE IF ~toc.ok
           THEN /\ GetFilesDone("Io", <<>>, root.nread + toc.nread, base, FALSE)
                /\ stream_pos' = toc.pos
                /\ content_ofs' = base
                /\ UNCHANGED toc_table
           ELSE /\ GetFilesDone(out.err, out.files, root.nread + toc.nread, base, TRUE)
                /\ stream_pos' = toc.pos
                /\ content_ofs' = base
                /\ toc_table' = toc.table
    /\ UNCHANGED <<archive, start_pos, decryption>>

ExtractDone(err, f, read, handed, out_len) ==
    rd' = [rd EXCEPT !.op = "extract_file", !.err = err, !.files = <<>>, !.file = f,
                     !.nread = Len(read), !.read = read, !.handed = handed,
                     !.out_len = out_len, !.has_read = @ \/ Len(read) > 0,
                     !.seq = IF rd.ever_called THEN "extracted" ELSE @]

\* CpkReader::extract_file
ExtractFile(f) ==
    /\ Callable
    /\ LET a == Archive(archive)
           pos == AddU64(content_ofs, f.file_offset)
           avail == IF pos < a.len THEN a.len - pos ELSE 0
           base == a.base
           read == [j \in 1 .. f.file_size |-> StreamByte(base, pos + j - 1)]
           Handed(target) == IF decryption THEN decrypt_in_place(target, read) ELSE read
       IN  IF GetFilesNotCalled(content_ofs)
           THEN /\ ExtractDone("GetFilesNotCalled", f, <<>>, <<>>, 0)
                /\ UNCHANGED <<stream_pos, used>>
           ELSE IF f.file_size > avail
           THEN /\ ExtractDone("Io", f, SubSeq(read, 1, avail), <<>>, 0)
                /\ stream_pos' = a.len
                /\ UNCHANGED used
           ELSE /\ stream_pos' = pos + f.file_size
                /\ \E target \in Targets :
                   LET handed == Handed(target) IN
                   \E oc \in is_compressed(handed) :
                      IF oc = "ub"
                      THEN ExtractDone("ub", f, read, handed, 0) /\ UNCHANGED used
                      ELSE IF oc = "true"
                      THEN \E g \in GarbageBytes :
                              LET d == LaylaDecompress(handed, g, used)
                              IN  /\ ExtractDone("ok", f, read, handed, d.node.size)
                                  /\ used' = DropNode(d.used, d.node)
                      ELSE ExtractDone("ok", f, read, handed, Len(handed)) /\ UNCHANGED used
    /\ UNCHANGED <<archive, start_pos, content_ofs, toc_table, decryption>>

(***************************************************************************)
(* schema/: the table header view (header.rs), the column list             *)
(* (columns.rs), the row decoder (rows.rs) and the two string pools        *)
(* (strings.rs), put together by HighTable::new (cpk/header.rs).           *)
(* A table is its allocation, a sequence of bytes; byte k of the slice is  *)
(* alloc[k + 1].                                                           *)
(***************************************************************************)
HEADER_OFFSET == 8
HEADER_SIZE == 32
TYPE_MASK == 15
NAME == 16
DEFAULT_VALUE == 32
ROW_STORAGE == 64
GUID == 12

\* E::get_u16 / get_u32 / get_u64 of BigEndian over the n bytes at offset ofs.
RECURSIVE BigEndian(_, _, _)
BigEndian(slice, ofs, n) ==
    IF n = 0 THEN 0 ELSE BigEndian(slice, ofs, n - 1) * 256 + slice[ofs + n]

\* E::get_i16 / get_i32 / get_i64: the same bytes as a two's complement value.
BigEndianSigned(slice, ofs, n) ==
    IF slice[ofs + 1] >= 128
    THEN -(BigEndian([k \in DOMAIN slice |-> 255 - slice[k]], ofs, n) + 1)
    ELSE BigEndian(slice, ofs, n)

\* The accessors of TableHeader over the slice it views.
rows_offset(file)        == BigEndian(file, 10, 2) + HEADER_OFFSET
string_pool_offset(file) == BigEndian(file, 12, 4) + HEADER_OFFSET
data_pool_offset(file)   == BigEndian(file, 16, 4) + HEADER_OFFSET
column_count(file)       == BigEndian(file, 24, 2)
row_count(file)          == BigEndian(file, 28, 4)

\* ColumnValue::get_flags().contains(bit), ColumnValue::get_type.
contains(flag, bit) == (flag \div bit) % 2 = 1
get_type(flag) == flag % (TYPE_MASK + 1)

\* ColumnType::get_size.
get_size(t) ==
    CASE t \in {0, 1} -> 1
      [] t \in {2, 3} -> 2
      [] t \in {4, 5, 8, 10} -> 4
      [] t \in {6, 7, 9, 11} -> 8
      [] OTHER -> 16

\* A decoder that takes the first byte of each field for its value.
row_value_first_byte(t, slice) ==
    Cell(<<"Byte", "SByte", "UInt16", "Int16", "UInt32", "Int32", "UInt64", "Int64",
           "Single", "Double", "String", "Data">>[t + 1],
         IF t = 11 THEN <<slice[1], slice[5]>> ELSE slice[1])

\* Row::row_value for the types below Guid; slice holds get_size(t) bytes.
\* Single and Double carry the bits of the float.
row_value(t, slice) ==
    CASE t = 0  -> Cell("Byte", slice[1])
      [] t = 1  -> Cell("SByte", BigEndianSigned(slice, 0, 1))
      [] t = 2  -> Cell("UInt16", BigEndian(slice, 0, 2))
      [] t = 3  -> Cell("Int16", BigEndianSigned(slice, 0, 2))
      [] t = 4  -> Cell("UInt32", BigEndian(slice, 0, 4))
      [] t = 5  -> Cell("Int32", BigEndianSigned(slice, 0, 4))
      [] t = 6  -> Cell("UInt64", BigEndian(slice, 0, 8))
      [] t = 7  -> Cell("Int64", BigEndianSigned(slice, 0, 8))
      [] t = 8  -> Cell("Single", BigEndian(slice, 0, 4))
      [] t = 9  -> Cell("Double", BigEndian(slice, 0, 8))
      [] t = 10 -> Cell("String", BigEndian(slice, 0, 4))
      [] OTHER  -> Cell("Data", <<BigEndian(slice, 0, 4), BigEndian(slice, 4, 4)>>)

Column(flag, string_offset, default) ==
    [flag |-> flag, string_offset |-> string_offset, default |-> default]

\* Column::new_list: the loop, the cursor at pos, left entries to go.
\* An error returns what was read so far.
RECURSIVE ColumnLoop(_, _, _, _)
ColumnLoop(alloc, pos, left, columns) ==
    LET Stop(err) == [err |-> err, columns |-> columns, pos |-> pos]
    IN  IF left = 0 THEN Stop("ok")
        ELSE IF pos + 5 > Len(alloc) THEN Stop("Io")
        ELSE LET flag == alloc[pos + 1]
                 string_offset == BigEndian(alloc, pos + 1, 4)
                 t == get_type(flag)
                 size == get_size(t)
             IN  IF ~contains(flag, DEFAULT_VALUE)
                 THEN ColumnLoop(alloc, pos + 5, left - 1,
                                 Append(columns, Column(flag, string_offset, NoneCell)))
                 ELSE IF t > GUID THEN Stop("ub")
                 ELSE IF pos + 5 + size > Len(alloc) THEN Stop("Io")
                 ELSE IF t = GUID THEN Stop("panic")
                 ELSE ColumnLoop(alloc, pos + 5 + size, left - 1,
                          Append(columns, Column(flag, string_offset,
                              row_value(t, SubSeq(alloc, pos + 6, pos + 5 + size)))))

Column_new_list(alloc) == ColumnLoop(alloc, HEADER_SIZE, column_count(alloc), <<>>)

\* Row::create_row: the loop over column_def from column j on.
RECURSIVE create_row(_, _, _, _, _)
create_row(alloc, pos, column_def, j, column_data) ==
    LET Stop(err) == [err |-> err, row |-> column_data, pos |-> pos]
    IN  IF j > Len(column_def) THEN Stop("ok")
        ELSE LET c == column_def[j]
                 t == get_type(c.flag)
                 size == get_size(t)
             IN  IF t > GUID THEN Stop("ub")
                 ELSE IF ~contains(c.flag, ROW_STORAGE)
                 THEN create_row(alloc, pos, column_def, j + 1, Append(column_data, NoneCell))
                 ELSE IF pos + size > Len(alloc) THEN Stop("Io")
                 ELSE IF t = GUID THEN Stop("panic")
                 ELSE create_row(alloc, pos + size, column_def, j + 1,
                          Append(column_data, row_value(t, SubSeq(alloc, pos + 1, pos + size))))

\* Row::new_list: the loop, left rows to go.
RECURSIVE RowLoop(_, _, _, _, _)
RowLoop(alloc, pos, column_def, left, rows) ==
    IF left = 0 THEN [err |-> "ok", rows |-> rows]
    ELSE LET r == create_row(alloc, pos, column_def, 1, <<>>)
         IN  IF r.err # "ok" THEN [err |-> r.err, rows |-> rows]
             ELSE RowLoop(alloc, r.pos, column_def, left - 1, Append(rows, r.row))

Row_new_list(alloc, column_def) ==
    RowLoop(alloc, rows_offset(alloc), column_def, row_count(alloc), <<>>)

\* CStr::from_ptr(mem.as_ptr().add(at)): the index of the NUL that ends the
\* string starting at byte at of mem, 0 when mem holds no NUL from there on
\* (strlen then runs past the allocation).
NulFrom(mem, at) ==
    LET Z == {k \in (at + 1) .. Len(mem) : mem[k] = 0}
    IN  IF Z = {} THEN 0 ELSE CHOOSE k \in Z : \A m \in Z : k <= m

Some(s) == [kind |-> "some", s |-> s]
None == [kind |-> "none", s |-> <<>>]
Undefined == [kind |-> "ub", s |-> <<>>]

\* StringPoolFast::new_borrowed_utf8 over the len bytes of mem from base on:
\* the loop. ASCII bytes decode to themselves, so new_borrowed_shift_jis
\* builds the same map from them.
RECURSIVE InternLoop(_, _, _, _, _)
InternLoop(mem, base, len, offset, pointers) ==
    IF offset >= len THEN [err |-> "ok", pointers |-> pointers]
    ELSE LET z == NulFrom(mem, base + offset)
             new == SubSeq(mem, base + offset + 1, z - 1)
         IN  IF z = 0 THEN [err |-> "ub", pointers |-> pointers]
             ELSE InternLoop(mem, base, len, offset + Len(new) + 1,
                             (offset :> new) @@ pointers)

new_borrowed(mem, base, len) == InternLoop(mem, base, len, 0, <<>>)

\* StringPool for StringPoolFast: get_string.
StringPoolFast_get_string(pointers, offset) ==
    IF offset \in DOMAIN pointers THEN Some(pointers[offset]) ELSE None

\* StringPoolImpl::new: the pool's own copy of alloc[sp .. dp].
StringPoolImpl_new(file) ==
    SubSeq(file, string_pool_offset(file) + 1, data_pool_offset(file))

\* StringPool for StringPoolImpl: get_string, UTF-8.
StringPoolImpl_get_string(alloc, offset) ==
    IF offset >= Len(alloc) THEN None
    ELSE LET z == NulFrom(alloc, offset)
         IN  IF z = 0 THEN Undefined ELSE Some(SubSeq(alloc, offset + 1, z - 1))

NoTable == [err |-> "none", columns |-> <<>>, rows |-> <<>>, pointers |-> <<>>]

\* HighTable::new. TableHeader::new only wraps the slice; the fields are read
\* where they are used, by unchecked pointer reads. The result carries what was
\* read from the table before the call returned.
HighTable_new(alloc) ==
    IF Len(alloc) < 26 THEN [NoTable EXCEPT !.err = "ub"]
    ELSE LET cl == Column_new_list(alloc)
             got == [NoTable EXCEPT !.columns = cl.columns]
             sp == string_pool_offset(alloc)
             dp == data_pool_offset(alloc)
         IN  IF cl.err # "ok" THEN [got EXCEPT !.err = cl.err]
             ELSE IF sp > dp \/ dp > Len(alloc) THEN [got EXCEPT !.err = "panic"]
             ELSE IF Len(alloc) < HEADER_SIZE THEN [got EXCEPT !.err = "ub"]
             ELSE LET rl == Row_new_list(alloc, cl.columns)
                      st == new_borrowed(alloc, sp, dp - sp)
                  IN  IF rl.err # "ok" THEN [got EXCEPT !.err = rl.err, !.rows = rl.rows]
                      ELSE [got EXCEPT !.err = st.err, !.rows = rl.rows,
                                       !.pointers = st.pointers]

(***************************************************************************)
(* The other components at rest.                                           *)
(***************************************************************************)
ThIdle == lock = FALSE /\ pc = <<>> /\ loc = <<>>

LayIdle == lay = [phase |-> "unused"]

CursorIdle == cur = [op |-> "unused"]

CryptIdle == cry = [kind |-> "unused"]
TabIdle == tab = [kind |-> "unused"]

ReaderIdle ==
    /\ archive = "none"
    /\ start_pos = 0
    /\ stream_pos = 0
    /\ content_ofs = 0
    /\ toc_table = "None"
    /\ decryption = FALSE
    /\ rd = [op |-> "unused"]

(***************************************************************************)
(* SpecFreeList: one FreeList, one thread.                                 *)
(***************************************************************************)
InitFreeList == FlInit /\ ThIdle /\ LayIdle /\ ReaderIdle /\ CursorIdle /\ CryptIdle /\ TabIdle

NextFreeList ==
    \/ \E size \in AllocSizes : Allocate(size) /\ UNCHANGED <<thVars, layVars, readerVars, cursorVars, cryptVars, schemaVars>>
    \/ \E p \in BagToSet(nodes) : Drop(p) /\ UNCHANGED <<thVars, layVars, readerVars, cursorVars, cryptVars, schemaVars>>

SpecFreeList == InitFreeList /\ [][NextFreeList]_vars

(***************************************************************************)
(* SpecThreads: one FreeList shared by NumThreads threads.                 *)
(***************************************************************************)
InitThreads == FlInit /\ ThInit /\ LayIdle /\ ReaderIdle /\ CursorIdle /\ CryptIdle /\ TabIdle

NextThreads ==
    \/ \E t \in Threads, size \in ThreadSizes :
          TAllocate(t, size) /\ UNCHANGED <<fl, layVars, readerVars, cursorVars, cryptVars, schemaVars>>
    \/ \E t \in Threads : TAcquire(t) /\ UNCHANGED <<fl, layVars, readerVars, cursorVars, cryptVars, schemaVars>>
    \/ \E t \in Threads : TSearch(t) /\ UNCHANGED <<fl, layVars, readerVars, cursorVars, cryptVars, schemaVars>>
    \/ \E t \in Threads : TBitOn(t) /\ UNCHANGED <<fl, layVars, readerVars, cursorVars, cryptVars, schemaVars>>
    \/ \E t \in Threads : TAllocateReturn(t) /\ UNCHANGED <<fl, layVars, readerVars, cursorVars, cryptVars, schemaVars>>
    \/ \E t \in Threads, p \in BagToSet(nodes) :
          TDrop(t, p) /\ UNCHANGED <<fl, layVars, readerVars, cursorVars, cryptVars, schemaVars>>
    \/ \E t \in Threads : TBitOff(t) /\ UNCHANGED <<fl, layVars, readerVars, cursorVars, cryptVars, schemaVars>>
    \/ \E t \in Threads : TDeallocateReturn(t) /\ UNCHANGED <<fl, layVars, readerVars, cursorVars, cryptVars, schemaVars>>

SpecThreads == InitThreads /\ [][NextThreads]_vars

\* the steps of a call of thread t between its acquire and its return
ThreadStep(t) ==
    /\ TSearch(t) \/ TBitOn(t) \/ TAllocateReturn(t) \/ TBitOff(t) \/ TDeallocateReturn(t)
    /\ UNCHANGED <<fl, layVars, readerVars, cursorVars, cryptVars, schemaVars>>

\* the round of the spin loop that finds the lock free
ThreadEnter(t) ==
    /\ TAcquire(t)
    /\ UNCHANGED <<fl, layVars, readerVars, cursorVars, cryptVars, schemaVars>>

\* SpecThreadsFair: a thread inside a call keeps running (weak fairness of
\* its steps), and a thread spinning in while self.lock.swap(true, Acquire) {}
\* repeats the swap, so it enters once the lock is free often enough (strong
\* fairness of the round that succeeds). Calls and drops themselves are free
\* to stop.
SpecThreadsFair ==
    /\ InitThreads /\ [][NextThreads]_vars
    /\ \A t \in Threads : WF_vars(ThreadStep(t)) /\ SF_vars(ThreadEnter(t))

(***************************************************************************)
(* Claims about the free list.                                             *)
(***************************************************************************)
\* C5: after any sequence of allocate calls and node drops, the number of set
\* bits of the occupancy bitmap equals the sum of ceil(size / 262144) over the
\* live managed nodes.
C5_BitCountEqualsLiveBlocks ==
    Cardinality(used) = SumBlocks(nodes, BagToSet(nodes))

\* C6: allocate(n) returns a node of size n, and a heap node only when
\* n > 64 MiB or no run of b = ceil(n / 262144) clear blocks starting at a
\* multiple of b exists within the 256 blocks.
C6_HeapOnlyWhenNoAlignedRun ==
    fl.op = "allocate" =>
        /\ fl.node.size = fl.size
        /\ ~fl.node.managed =>
              \/ fl.size > SLAB_SIZE
              \/ LET b == into_block(fl.size)
                 IN  ~\E s \in 0 .. 255 :
                        /\ s % b = 0
                        /\ s + b <= 256
                        /\ (s .. (s + b - 1)) \cap fl.before = {}

\* C8: allocate(n) followed at once by the drop of the node it returned leaves
\* the occupancy bitmap as it was before the allocation.
C8_AllocateDropRestoresBitmap ==
    fl.op = "allocate_drop" => used = fl.before

\* C23: in every reachable state the block ranges
\* [start, start + ceil(size / 262144)) of any two live managed nodes are
\* disjoint (two live nodes of the same address and size count as two).
C23_LiveRangesDisjoint ==
    \A p, q \in BagToSet(nodes) :
        /\ p # q => NodeBlocks(p) \cap NodeBlocks(q) = {}
        /\ nodes[p] > 1 => NodeBlocks(p) = {}

\* C25: a managed node returned by allocate(n) starts at the smallest
\* multiple s of b = ceil(n / 262144) whose b bits [s, s + b) were all clear
\* before the call, the call sets exactly those bits, and the node's address
\* is slab + s * 262144.
C25_FirstAlignedClearRun ==
    (fl.op = "allocate" /\ fl.node.managed) =>
        LET b == into_block(fl.size)
            s == Shr(fl.node.ptr, BLOCK_SHIFT)
            Clear(x) == (x .. (x + b - 1)) \cap fl.before = {}
        IN  /\ fl.node.ptr = s * BlockBytes
            /\ IF b = 0 THEN s = 0 ELSE s % b = 0
            /\ Clear(s)
            /\ \A x \in 0 .. (s - 1) : (b # 0 /\ x % b = 0) => ~Clear(x)
            /\ used = fl.before \cup (s .. (s + b - 1))

\* C7: at most one thread is between acquire and unacquire, it holds the lock
\* there, the bitmap a thread searched is still the bitmap when it writes the
\* bits of the run it found (no update of another thread came between), and
\* once every call has returned the bitmap holds exactly the blocks of the
\* live nodes (no update was lost).
C7_LockSerializesBitmap ==
    /\ Cardinality({t \in Threads : pc[t] \in Critical}) <= 1
    /\ \A t \in Threads : pc[t] \in Critical => lock
    /\ \A t \in Threads : pc[t] = "a_bit_on" => loc[t].seen = used
    /\ (\A t \in Threads : pc[t] = "idle") =>
          used = UNION {NodeBlocks(p) : p \in BagToSet(nodes)}

C7_Witness ==
    \E t, o \in Threads :
        /\ pc[t] = "a_bit_on"
        /\ pc[o] \in {"a_acquire", "d_acquire"}
        /\ used # {}

(***************************************************************************)
(* SpecLayla: one run of the CRILAYLA decoder on one input.                *)
(***************************************************************************)
InitLayla == FlInit /\ ThIdle /\ LayInit /\ ReaderIdle /\ CursorIdle /\ CryptIdle /\ TabIdle

NextLayla ==
    \/ \E g \in GarbageBytes : LaylaStart(g) /\ UNCHANGED <<thVars, readerVars, cursorVars, cryptVars, schemaVars>>
    \/ \E g \in GarbageBytes : LaylaLiteral(g) /\ UNCHANGED <<flVars, thVars, readerVars, cursorVars, cryptVars, schemaVars>>
    \/ \E g \in GarbageBytes : LaylaCopy(g) /\ UNCHANGED <<flVars, thVars, readerVars, cursorVars, cryptVars, schemaVars>>
    \/ LaylaReturn /\ UNCHANGED <<flVars, thVars, readerVars, cursorVars, cryptVars, schemaVars>>

SpecLayla == InitLayla /\ [][NextLayla]_vars

(***************************************************************************)
(* Claims about the CRILAYLA decoder.                                      *)
(***************************************************************************)
\* C9: for every CRILAYLA input the decoding loop writes no output byte below
\* index 0x100: neither into the 0x100 byte prefix nor before the buffer.
C9_NoWriteBelowPrefix ==
    lay.phase \in {"loop", "done"} => lay.st.wmin >= UNCOMPRESSED_DATA_SIZE

\* C10: for every CRILAYLA input the bit reader reads only bytes of the
\* compressed window, which starts after the 16 byte header: its cursor never
\* stands below the end of the header.
C10_CursorStaysInWindow ==
    lay.phase \in {"loop", "done"} => lay.st.cdata >= LaylaHeaderSize

\* C11: when decompress returns, the first 0x100 bytes of the output are the
\* bytes input[uncompressed_header_offset .. uncompressed_header_offset + 0x100]
\* of the input, the offset counted from the first byte of the CRILAYLA magic.
C11_PrefixFromInputStart ==
    lay.phase = "done" =>
        LET input == MkInput(lay.usize, lay.cmp)
            ofs == LaylaHeader(input).uncompressed_header_offset
        IN  \A j \in 0 .. (UNCOMPRESSED_DATA_SIZE - 1) : lay.st.out[j + 1] = input[ofs + j + 1]

RECURSIVE StreamBits(_, _, _, _, _)
\* the next n bits of the stream, read one at a time
StreamBits(input, g, c, n, acc) ==
    IF n = 0 THEN [val |-> acc, cdata |-> c.cdata, bits_left |-> c.bits_left]
    ELSE LET r == read_1(input, g, c)
         IN  StreamBits(input, g, r, n - 1, 2 * acc + (IF r.val THEN 1 ELSE 0))

RECURSIVE RefChunks(_, _, _, _)
\* every following 8-bit chunk up to and including the first one below 255
RefChunks(input, g, c, length) ==
    LET t == StreamBits(input, g, c, 8, 0)
    IN  IF t.val < 255 THEN [t EXCEPT !.val = length + @]
        ELSE RefChunks(input, g, t, length + t.val)

\* L = 3 + t1 (+ t2 only if t1 = 3) (+ t3 only if t2 = 7) (+ chunks only if t3 = 31)
RefLength(input, g, c) ==
    LET t1 == StreamBits(input, g, c, 2, 0)
        t2 == StreamBits(input, g, t1, 3, 0)
        t3 == StreamBits(input, g, t2, 5, 0)
    IN  IF t1.val # 3 THEN [t1 EXCEPT !.val = 3 + @]
        ELSE IF t2.val # 7 THEN [t2 EXCEPT !.val = 3 + 3 + @]
        ELSE IF t3.val # 31 THEN [t3 EXCEPT !.val = 3 + 3 + 7 + @]
        ELSE RefChunks(input, g, t3, 3 + 3 + 7 + 31)

RECURSIVE RefCopySome(_, _, _, _, _, _)
\* output[cursor - k] = output[cursor - k + offset] for k = from .. to - 1
RefCopySome(st, g, cursor, offset, from, to) ==
    IF from >= to THEN st
    ELSE RefCopySome(CopyByte(st, g, cursor - from, offset), g, cursor, offset, from + 1, to)

RECURSIVE RefCopy(_, _, _, _, _, _)
\* the sequential copy of L bytes in increasing k, sixteen bytes at a time
RefCopy(st, g, cursor, offset, k, L) ==
    IF k >= L THEN st
    ELSE LET some == RefCopySome(st, g, cursor, offset, k, Min(k + 16, L))
         IN  IF Len(some.out) = Len(st.out)
             THEN RefCopy(some, g, cursor, offset, k + 16, L)
             ELSE some

\* the reference step of the decode loop from state st
RefStep(input, g, st) ==
    LET flag == StreamBits(input, g, st, 1, 0)
        lit == StreamBits(input, g, flag, 8, 0)
        raw == StreamBits(input, g, flag, 13, 0)
        len == RefLength(input, g, raw)
    IN  IF flag.val = 0
        THEN [out |-> Poke(st, st.pwrite, lit.val).out, pwrite |-> st.pwrite - 1,
              cdata |-> lit.cdata, bits_left |-> lit.bits_left]
        ELSE [out |-> RefCopy(st, g, st.pwrite, raw.val + 3, 0, len.val).out,
              pwrite |-> st.pwrite - len.val,
              cdata |-> len.cdata, bits_left |-> len.bits_left]

InitCursor == FlInit /\ ThIdle /\ LayIdle /\ ReaderIdle /\ CursorInit /\ CryptIdle /\ TabIdle

NextCursor ==
    \E op \in {"read_2", "read_8", "read_13", "read_max_8"}, bits \in {1, 2, 3, 4, 5, 6, 7, 8, 13} :
        CursorCall(op, bits) /\ UNCHANGED <<flVars, thVars, layVars, readerVars, cryptVars, schemaVars>>

SpecCursor == InitCursor /\ [][NextCursor]_vars

RECURSIVE ReadBits(_, _, _, _)
\* n successive read_1 calls from cursor c, their bits combined most
\* significant first into acc
ReadBits(mem, c, n, acc) ==
    IF n = 0 THEN [val |-> acc, cdata |-> c.cdata, bits_left |-> c.bits_left]
    ELSE LET r == read_1(mem, 0, c)
         IN  ReadBits(mem, r, n - 1, 2 * acc + (IF r.val THEN 1 ELSE 0))

\* C12: read_2, read_8, read_13 and read_max_8(N), 1 <= N <= 8, called from
\* any cursor state on any bytes, return the value and leave the cursor
\* (byte position and bits_left) as N successive read_1 calls do.
C12_ReadersEqualSingleBits ==
    cur.op \notin {"unused", "new"} =>
        LET ref == ReadBits(cur.mem, cur.from, cur.bits, 0)
        IN  /\ cur.err = "ok"
            /\ cur.val = ref.val
            /\ cur.cdata = ref.cdata
            /\ cur.bits_left = ref.bits_left

(***************************************************************************)
(* SpecCrypt: one decryptor called on one buffer.                          *)
(***************************************************************************)
InitCrypt == FlInit /\ ThIdle /\ LayIdle /\ ReaderIdle /\ CursorIdle /\ CryptInit /\ TabIdle

NextCrypt ==
    \/ DecryptUtfInPlace /\ UNCHANGED <<flVars, thVars, layVars, readerVars, cursorVars, schemaVars>>
    \/ DecryptUtf /\ UNCHANGED <<flVars, thVars, layVars, readerVars, cursorVars, schemaVars>>
    \/ P5RDecryptInPlace /\ UNCHANGED <<flVars, thVars, layVars, readerVars, cursorVars, schemaVars>>

SpecCrypt == InitCrypt /\ [][NextCrypt]_vars

(***************************************************************************)
(* Claims about the decryptors.                                            *)
(***************************************************************************)
RECURSIVE KeyPower(_)
\* 21^i mod 256
KeyPower(i) ==
    IF i = 0 THEN 1
    ELSE LET h == KeyPower(i \div 2)
         IN  (h * h * (IF i % 2 = 1 THEN 21 ELSE 1)) % 256

\* C13: on a buffer of any length, one table decryption with seed 95 leaves
\* byte i = input[i] XOR (95 * 21^i mod 256), whichever of the AVX2, SSE3 and
\* u64 loops the build runs, and that is what each of the three block loops
\* and the byte-at-a-time loop leave when called on the input.
C13_TableKeyStream ==
    (cry.fn = "decrypt_utf_in_place" /\ cry.calls = 1) =>
        LET expect == [j \in 1 .. Len(cry.input) |->
                          Xor8(cry.input[j], (95 * KeyPower(j - 1)) % 256)]
        IN  /\ cry.buf = expect
            /\ decrypt_in_place_u8(cry.input, 0, 95) = expect
            /\ table_decrypt_in_place_u64(cry.input, 0, 95) = expect
            /\ table_decrypt_in_place_sse3(cry.input, 0, 95) = expect
            /\ table_decrypt_in_place_avx2(cry.input, 0, 95) = expect

\* C13 witness: a buffer of two AVX2 blocks and a tail was decrypted by the
\* AVX2 build.
C13_Witness ==
    /\ cry.fn = "decrypt_utf_in_place" /\ cry.calls = 1 /\ cry.target = "avx2"
    /\ Len(cry.input) > 64 /\ Len(cry.input) % 32 # 0
    /\ cry.buf # cry.input

\* C14: decrypt_utf(x) has the length of x, and decrypt_utf(decrypt_utf(x)) = x.
C14_DecryptUtfTwice ==
    cry.fn = "decrypt_utf" =>
        /\ Len(cry.buf) = Len(cry.input)
        /\ cry.calls = 2 => cry.buf = cry.input

\* C15: decrypt_utf_in_place applied twice to a buffer of any length leaves
\* every byte as it was.
C15_InPlaceInvolution ==
    (cry.fn = "decrypt_utf_in_place" /\ cry.calls = 2) => cry.buf = cry.input

\* C15 witness: a buffer whose length is no multiple of 8 was decrypted twice.
C15_Witness ==
    /\ cry.fn = "decrypt_utf_in_place" /\ cry.calls = 2
    /\ Len(cry.input) = 13 /\ cry.buf = cry.input

\* C16: one decrypt_in_place on a buffer longer than 0x820 leaves byte i =
\* input[i] XOR input[i + 0x400] for i in [0x20, 0x420) and every other byte
\* as it was; on a buffer of 0x820 bytes or less it changes nothing.
C16_P5RFrame ==
    (cry.fn = "decrypt_in_place" /\ cry.calls = 1) =>
        IF Len(cry.input) > 2080
        THEN \A j \in 1 .. Len(cry.input) :
                cry.buf[j] = IF j - 1 >= 32 /\ j - 1 < 1056
                             THEN Xor8(cry.input[j], cry.input[j + 1024])
                             ELSE cry.input[j]
        ELSE cry.buf = cry.input

\* C16 witness: a buffer of 0x821 bytes was decrypted and bytes changed.
C16_Witness ==
    /\ cry.fn = "decrypt_in_place" /\ cry.calls = 1
    /\ Len(cry.input) = 2081 /\ cry.buf # cry.input

\* C17: decrypt_in_place applied twice leaves every byte as it was, and the
\* AVX2, SSE3 and u64 loops leave the same bytes after one call and after two.
C17_P5RInvolution ==
    cry.fn = "decrypt_in_place" =>
        /\ cry.calls = 2 => cry.buf = cry.input
        /\ cry.calls = 1 => \A t \in Targets : decrypt_in_place(t, cry.input) = cry.buf
        /\ cry.calls = 2 =>
              \A t \in Targets : decrypt_in_place(t, decrypt_in_place(t, cry.input)) = cry.buf

\* C17 witness: a buffer of more than 0x820 bytes that the first call changed
\* was decrypted twice by the SSE3 build.
C17_Witness ==
    /\ cry.fn = "decrypt_in_place" /\ cry.calls = 2 /\ cry.target = "sse3"
    /\ Len(cry.input) = 2200 /\ cry.buf = cry.input
    /\ decrypt_in_place("sse3", cry.input) # cry.input

(***************************************************************************)
(* Spec: one CpkReader over one archive.                                   *)
(***************************************************************************)
Init ==
    FlInit /\ ThIdle /\ LayIdle /\ ReaderInit /\ CursorIdle /\ CryptIdle /\ TabIdle

Next ==
    \/ GetFiles /\ UNCHANGED <<flVars, thVars, layVars, cursorVars, cryptVars, schemaVars>>
    \/ \E f \in Records : ExtractFile(f) /\ UNCHANGED <<nodes, fl, thVars, layVars, cursorVars, cryptVars, schemaVars>>

Spec == Init /\ [][Next]_vars

(***************************************************************************)
(* Claims about the reader.                                                *)
(***************************************************************************)
\* C1: on a reader built with new_p5r, extract_file hands the bytes it read
\* unchanged to magic detection when the record's user_string is not
\* "CRI_CFATTR:ENCRYPT" and its file_size is above 0x820.
C1_XorOnlyWhenMarked ==
    (/\ rd.op = "extract_file"
     /\ rd.err \in {"ok", "ub"}
     /\ decryption
     /\ ~is_encrypted(rd.file)
     /\ rd.file.file_size > ENCRYPTED_DATA_OFFSET + 2 * NUM_BYTES_TO_DECRYPT)
        => rd.handed = rd.read

\* C2: after a get_files call that returned an error, and until a later
\* get_files call succeeds, every extract_file call returns an error and
\* reads no file bytes.
C2_FailedCatalogRefusesExtract ==
    (rd.op = "extract_file" /\ rd.cat_failed) => (rd.err # "ok" /\ rd.nread = 0)

\* C3: as long as get_files has not been called, nothing was read from the
\* byte source, its position is the one it had at construction, and every
\* extract_file call returned GetFilesNotCalled.
C3_ExtractBeforeCatalog ==
    ~rd.ever_called =>
        /\ ~rd.has_read
        /\ stream_pos = start_pos
        /\ rd.op = "extract_file" => (rd.err = "GetFilesNotCalled" /\ rd.nread = 0)

\* C3 witness: extract_file was called on a reader whose get_files was never called.
C3_Witness == rd.op = "extract_file" /\ ~rd.ever_called /\ rd.file = FileB

\* C4: on a valid archive whose catalog was built, extract_file(f) of a record
\* f of the catalog returns a buffer of exactly f.extract_size bytes.
C4_ExtractSizeBytes ==
    (/\ rd.op = "extract_file"
     /\ Archive(archive).valid
     /\ rd.ever_called /\ ~rd.cat_failed)
        => (rd.err = "ok" /\ rd.out_len = rd.file.extract_size)

\* C18: get_files returns an error (it neither succeeds nor panics) when the
\* root table has no TocOffset or no ContentOffset column, and when the TOC
\* table lacks one of DirName, FileName, FileSize, ExtractSize, FileOffset,
\* UserString, whatever the number of its rows.
C18_MissingColumnIsError ==
    LET a == Archive(archive)
        Names(t) == {t.columns[i].name : i \in 1 .. Len(t.columns)}
        root == a.tables[a.root_pos]
        tocs == {a.tables[q] : q \in DOMAIN a.tables \ {a.root_pos}}
        root_lacks == root.state = "ok" /\ ~({"TocOffset", "ContentOffset"} \subseteq Names(root))
        toc_lacks == /\ root.state = "ok" /\ ~root_lacks
                     /\ \E t \in tocs :
                           /\ t.state = "ok"
                           /\ ~({"DirName", "FileName", "FileSize", "ExtractSize",
                                  "FileOffset", "UserString"} \subseteq Names(t))
    IN  (rd.op = "get_files" /\ (root_lacks \/ toc_lacks)) => rd.err \notin {"ok", "panic"}

\* C19: once get_files has succeeded, the content offset of the reader is
\* TocOffset when TocOffset < ContentOffset and ContentOffset otherwise, and
\* an extract_file(f) that reads seeks to that offset plus f.file_offset and
\* reads exactly the f.file_size bytes that stand there.
C19_ContentBase ==
    (rd.op \in {"get_files", "extract_file"} /\ rd.ever_called /\ ~rd.cat_failed) =>
        LET a == Archive(archive)
            cols == a.tables[a.root_pos].columns
            Value(name) == cols[CHOOSE i \in 1 .. Len(cols) : cols[i].name = name].cell.v
            base == IF Value("TocOffset") < Value("ContentOffset")
                    THEN Value("TocOffset") ELSE Value("ContentOffset")
            f == rd.file
        IN  /\ content_ofs = base
            /\ rd.op = "extract_file" =>
                  /\ rd.err \in {"ok", "ub"}
                  /\ stream_pos = base + f.file_offset + f.file_size
                  /\ rd.nread = f.file_size
                  /\ rd.read = [j \in 1 .. f.file_size |->
                                   StreamByte(a.base, base + f.file_offset + j - 1)]

\* C19 witness: a file was extracted from the archive whose TOC stands before
\* its ContentOffset.
C19_Witness ==
    /\ rd.op = "extract_file" /\ rd.err = "ok" /\ archive = "toc_first"
    /\ rd.file = FileB /\ content_ofs = 80 /\ rd.nread = 2081

\* C20: a successful get_files returns one record per TOC row, in row order;
\* file name, offset and sizes are the cells of the row, directory and
\* user_string the string of the row's cell, or the default string of the
\* column when the cell is None.
C20_RecordsAreRows ==
    (rd.op = "get_files" /\ rd.err = "ok") =>
        LET a == Archive(archive)
            root == a.tables[a.root_pos].columns
            toc == a.tables[root[CHOOSE i \in 1 .. Len(root) : root[i].name = "TocOffset"].cell.v]
            cols == toc.columns
            Ix(name) == CHOOSE i \in 1 .. Len(cols) : cols[i].name = name
            Str(row, name) == IF row[Ix(name)].type = "String" THEN row[Ix(name)].v
                              ELSE cols[Ix(name)].default.v
        IN  /\ Len(rd.files) = Len(toc.rows)
            /\ \A i \in 1 .. Len(toc.rows) :
                  LET row == toc.rows[i]
                  IN  rd.files[i] = [directory |-> Str(row, "DirName"),
                                     file_name |-> row[Ix("FileName")].v,
                                     file_offset |-> row[Ix("FileOffset")].v,
                                     file_size |-> row[Ix("FileSize")].v,
                                     extract_size |-> row[Ix("ExtractSize")].v,
                                     user_string |-> Str(row, "UserString")]

\* C20 witness: the catalog of the archive whose DirName and UserString cells
\* are None was built.
C20_Witness ==
    /\ rd.op = "get_files" /\ rd.err = "ok" /\ archive = "toc_defaults"
    /\ Len(rd.files) = 5
    /\ rd.files[3].directory = "common" /\ rd.files[3].file_name = "c.bin"

\* C26: the strings of the records the first get_files returned are still
\* owned by the reader after every later call: the HighTable they point into
\* is still the one in toc_table.
C26_RecordsStayValid ==
    (rd.first.err = "ok" /\ rd.first.files # <<>>) => rd.tables = rd.first.table

\* C27: when the bytes extract_file read (after the XOR of a P5R reader) do
\* not start with the CRILAYLA magic, whatever their number, extract_file
\* succeeds and returns them as they are.
C27_ShortBufferVerbatim ==
    LET starts == Len(rd.handed) >= 8 /\ SubSeq(rd.handed, 1, 8) = LAYLA_HEADER_MAGIC
    IN  (rd.op = "extract_file" /\ rd.err \notin {"GetFilesNotCalled", "Io"} /\ ~starts) =>
            /\ rd.err = "ok"
            /\ rd.out_len = Len(rd.handed)

\* C29: a get_files called again on the reader, after earlier get_files and
\* extract_file calls, returns what the first call returned (result and
\* catalog) and leaves the content offset the first call left.
C29_GetFilesRepeatable ==
    (rd.op = "get_files" /\ rd.seq \in {"repeat", "repeat_extracted"}) =>
        /\ rd.err = rd.first.err
        /\ rd.files = rd.first.files
        /\ content_ofs = rd.first.base

\* C29 witness: get_files was called again after an extract_file on the
\* archive whose TocOffset column stands first and is below ContentOffset.
C29_Witness ==
    /\ rd.op = "get_files" /\ rd.seq = "repeat_extracted" /\ rd.err = "ok"
    /\ archive = "toc_before_content" /\ stream_pos # start_pos
    /\ Len(rd.files) = 5 /\ content_ofs = 80

(***************************************************************************)
(* SpecTable: HighTable::new over one table allocation, then get_string of *)
(* the two string pools built over the table's pool.                       *)
(***************************************************************************)
\* The n bytes of v, most significant first.
BEBytes(v, n) == [k \in 1 .. n |-> (v \div (256 ^ (n - k))) % 256]

RECURSIVE Flatten(_)
Flatten(seqs) == IF seqs = <<>> THEN <<>> ELSE Head(seqs) \o Flatten(Tail(seqs))

\* The bytes of one cell of type t: a high first byte for the signed and the
\* one and two byte types, values below 2^31 for the wider unsigned ones.
CellBytes(t, seed) ==
    CASE t = 0  -> <<200 + seed>>
      [] t = 1  -> <<200 + seed>>
      [] t = 2  -> <<200, seed>>
      [] t = 3  -> <<255, seed>>
      [] t = 4  -> <<1, 2, 3, seed>>
      [] t = 5  -> <<255, 255, 254, seed>>
      [] t = 6  -> <<0, 0, 0, 0, 1, 2, 3, seed>>
      [] t = 7  -> <<255, 255, 255, 255, 255, 255, 254, seed>>
      [] t = 8  -> <<63, 128, 0, seed>>
      [] t = 9  -> <<0, 0, 0, 0, 63, 240, 0, seed>>
      [] t = 10 -> <<0, 0, 0, seed % 4>>
      [] t = 11 -> <<0, 0, 1, seed, 0, 0, 0, 9>>
      [] OTHER  -> [k \in 1 .. 16 |-> seed]

\* The entry of one column in the column stream.
ColumnBytes(flag) ==
    <<flag>> \o BEBytes(1, 4)
        \o (IF contains(flag, DEFAULT_VALUE) THEN CellBytes(get_type(flag), 7) ELSE <<>>)

\* The stored cells of row r.
RowBytes(flags, r) ==
    Flatten([j \in 1 .. Len(flags) |->
                IF contains(flags[j], ROW_STORAGE)
                THEN CellBytes(get_type(flags[j]), 16 * r + j) ELSE <<>>])

\* The 0x20 bytes of the preamble: "@UTF", length, encoding UTF-8, the three
\* offsets less the bias, name, column count, row size, row count.
HeaderBytes(ro, sp, dp, ncol, rsize, nrow, total) ==
    <<64, 85, 84, 70>> \o BEBytes(total - HEADER_OFFSET, 4) \o <<0, 1>>
        \o BEBytes(ro - HEADER_OFFSET, 2) \o BEBytes(sp - HEADER_OFFSET, 4)
        \o BEBytes(dp - HEADER_OFFSET, 4) \o BEBytes(0, 4)
        \o BEBytes(ncol, 2) \o BEBytes(rsize, 2) \o BEBytes(nrow, 4)

\* A table: preamble, columns, rows, string pool, data pool, one after another.
MkTable(flags, nrows, pool, data) ==
    LET cb == Flatten([j \in 1 .. Len(flags) |-> ColumnBytes(flags[j])])
        rb == Flatten([r \in 1 .. nrows |-> RowBytes(flags, r)])
        ro == HEADER_SIZE + Len(cb)
        sp == ro + Len(rb)
        dp == sp + Len(pool)
    IN  HeaderBytes(ro, sp, dp, Len(flags), Len(RowBytes(flags, 1)), nrows, dp + Len(data))
            \o cb \o rb \o pool \o data

\* The same table with other offsets in its preamble.
WithOffsets(file, ro, sp, dp) ==
    SubSeq(file, 1, 10) \o BEBytes(ro - HEADER_OFFSET, 2) \o BEBytes(sp - HEADER_OFFSET, 4)
        \o BEBytes(dp - HEADER_OFFSET, 4) \o SubSeq(file, 21, Len(file))

\* Column flag bytes: every type with NAME | ROW_STORAGE, a default without
\* storage, a default with storage, a column with neither.
ColumnFlags == {80, 81, 82, 83, 84, 85, 86, 87, 88, 89, 90, 91, 92, 52, 115, 26}
PoolBytes == {0, 97, 98}
DataPools == {<<>>, <<99, 0>>}

TableAllocs ==
    {MkTable(f, n, <<0>>, <<>>) : f \in SeqsUpTo(ColumnFlags, MaxCols), n \in 0 .. MaxRows}

PoolAllocs ==
    {MkTable(<<90>>, 1, p, d) : p \in SeqsUpTo(PoolBytes, MaxPoolLen), d \in DataPools}

\* Slices cut short, and preambles whose offsets are out of order or past the end.
BadAllocs ==
    LET G == MkTable(<<80, 90>>, 2, <<0, 97, 0>>, <<99, 0, 99, 99, 99, 99, 99, 99, 99, 99>>)
        Z == MkTable(<<>>, 0, <<0>>, <<>>)
        ro == rows_offset(G)  sp == string_pool_offset(G)  dp == data_pool_offset(G)
    IN  {SubSeq(G, 1, n) : n \in {0, 8, 25, 26, 31, 40, dp - 1}}
            \cup {SubSeq(Z, 1, n) : n \in {26, 31, 32}}
            \cup {WithOffsets(G, sp + 1, sp, dp), WithOffsets(G, ro, dp + 1, dp),
                  WithOffsets(G, ro, sp, Len(G) + 1), WithOffsets(G, ro, sp, sp),
                  WithOffsets(G, Len(G), sp, dp)}

NoLook == [offset |-> 0, fast |-> None, impl |-> None]

TabInit ==
    \E a \in TableAllocs \cup PoolAllocs \cup BadAllocs :
        tab = [kind |-> "table", phase |-> "new", alloc |-> a, res |-> NoTable, look |-> NoLook]

\* HighTable::new(alloc).
HighTableNew ==
    /\ tab.phase = "new"
    /\ tab' = [tab EXCEPT !.phase = "parsed", !.res = HighTable_new(tab.alloc)]

\* StringPoolFast::new and StringPoolImpl::new over the table both return a
\* pool when the preamble's pool bounds lie in the table.
PoolsBuilt(file) ==
    /\ Len(file) >= HEADER_SIZE
    /\ string_pool_offset(file) <= data_pool_offset(file)
    /\ data_pool_offset(file) <= Len(file)

\* get_string(offset) on the StringPoolFast and on the StringPoolImpl of the
\* table, for the offsets up to one past the end of the pool.
GetString(offset) ==
    /\ tab.phase \in {"parsed", "lookup"}
    /\ PoolsBuilt(tab.alloc)
    /\ offset <= data_pool_offset(tab.alloc) - string_pool_offset(tab.alloc) + 1
    /\ LET alloc == StringPoolImpl_new(tab.alloc)
           fast == new_borrowed(alloc, 0, Len(alloc))
       IN  tab' = [tab EXCEPT !.phase = "lookup",
                       !.look = [offset |-> offset,
                                 fast |-> IF fast.err = "ok"
                                          THEN StringPoolFast_get_string(fast.pointers, offset)
                                          ELSE Undefined,
                                 impl |-> StringPoolImpl_get_string(alloc, offset)]]

InitTable == FlInit /\ ThIdle /\ LayIdle /\ ReaderIdle /\ CursorIdle /\ CryptIdle /\ TabInit

NextTable ==
    \/ HighTableNew /\ UNCHANGED <<flVars, thVars, layVars, readerVars, cursorVars, cryptVars>>
    \/ \E offset \in 0 .. (MaxPoolLen + 1) :
          GetString(offset) /\ UNCHANGED <<flVars, thVars, layVars, readerVars, cursorVars, cryptVars>>

SpecTable == InitTable /\ [][NextTable]_vars

\* C21: on a pool whose strings all end with a NUL, get_string(offset) of the
\* eager pool and of the on-demand pool return the same result: the bytes from
\* offset up to the next NUL, or none when offset is not inside the pool.
C21_PoolsAgree ==
    LET pool == StringPoolImpl_new(tab.alloc)
        o == tab.look.offset
        rest == SubSeq(pool, o + 1, Len(pool))
        upto == CHOOSE n \in 0 .. Len(rest) :
                    /\ \A k \in 1 .. n : rest[k] # 0
                    /\ n < Len(rest) => rest[n + 1] = 0
    IN  (tab.phase = "lookup" /\ (pool = <<>> \/ pool[Len(pool)] = 0)) =>
            /\ tab.look.fast = tab.look.impl
            /\ tab.look.impl = IF o < Len(pool) THEN Some(SubSeq(rest, 1, upto)) ELSE None

\* C22: HighTable::new over a slice shorter than 0x20 bytes, or over a preamble
\* that breaks rows_offset <= string_pool_offset <= data_pool_offset <= length,
\* fails with MalformedHeader and has read no columns, rows or strings.
C22_MalformedHeader ==
    LET file == tab.alloc
        malformed == IF Len(file) < HEADER_SIZE THEN TRUE
                     ELSE ~(/\ rows_offset(file) <= string_pool_offset(file)
                            /\ string_pool_offset(file) <= data_pool_offset(file)
                            /\ data_pool_offset(file) <= Len(file))
    IN  (tab.phase # "new" /\ malformed) =>
            /\ tab.res.err = "MalformedHeader"
            /\ tab.res.columns = <<>> /\ tab.res.rows = <<>>
            /\ DOMAIN tab.res.pointers = {}

\* The value of the bytes b, most significant first, as an unsigned number and
\* as a two's complement number.
RECURSIVE Weighted(_, _, _)
Weighted(b, k, flip) ==
    IF k > Len(b) THEN 0
    ELSE LET d == IF flip THEN 255 - b[k] ELSE b[k]
         IN  (IF d = 0 THEN 0 ELSE d * 256 ^ (Len(b) - k)) + Weighted(b, k + 1, flip)

TypeNames == <<"Byte", "SByte", "UInt16", "Int16", "UInt32", "Int32", "UInt64", "Int64",
               "Single", "Double", "String", "Data">>

\* C28: every row HighTable::new decoded has column_count cells in column
\* order; cell j is None exactly when column j lacks ROW_STORAGE, whatever its
\* default, and otherwise is the big-endian value of the column's type held by
\* the next get_size bytes, rows and cells lying one after another from
\* rows_offset on; a Data cell is its offset then its length.
C28_RowsDecoded ==
    LET file == tab.alloc
        cols == tab.res.columns
        rows == tab.res.rows
        Stored(j) == (cols[j].flag \div 64) % 2 = 1
        Width(j) == IF Stored(j) THEN get_size(cols[j].flag % 16) ELSE 0
        Before(j) == Len(Flatten([k \in 1 .. (j - 1) |-> [i \in 1 .. Width(k) |-> 0]]))
        At(r, j) == rows_offset(file) + (r - 1) * Before(Len(cols) + 1) + Before(j)
        Bytes(r, j) == SubSeq(file, At(r, j) + 1, At(r, j) + Width(j))
        Unsigned(b) == Weighted(b, 1, FALSE)
        Signed(b) == IF b[1] >= 128 THEN -1 - Weighted(b, 1, TRUE) ELSE Weighted(b, 1, FALSE)
        Value(t, b) == IF t \in {1, 3, 5, 7} THEN Signed(b)
                       ELSE IF t = 11 THEN <<Unsigned(SubSeq(b, 1, 4)), Unsigned(SubSeq(b, 5, 8))>>
                       ELSE Unsigned(b)
    IN  (tab.phase # "new" /\ tab.res.err = "ok") =>
            /\ Len(cols) = column_count(file)
            /\ Len(rows) = row_count(file)
            /\ \A r \in 1 .. Len(rows) :
                  /\ Len(rows[r]) = column_count(file)
                  /\ \A j \in 1 .. Len(cols) :
                        IF Stored(j)
                        THEN /\ rows[r][j].type = TypeNames[(cols[j].flag % 16) + 1]
                             /\ rows[r][j].v = Value(cols[j].flag % 16, Bytes(r, j))
                        ELSE rows[r][j] = NoneCell

\* C28 witness: a table of two rows was decoded whose first column has a
\* default and no storage and whose second column is a stored Data column.
C28_Witness ==
    /\ tab.phase = "parsed" /\ tab.res.err = "ok"
    /\ Len(tab.res.rows) = 2 /\ Len(tab.res.columns) = 2
    /\ tab.res.columns[1].flag = 52 /\ tab.res.columns[1].default = Cell("UInt32", 16909063)
    /\ tab.res.columns[2].flag = 91
    /\ tab.res.rows[2] = <<NoneCell, Cell("Data", <<290, 9>>)>>
=============================================================================
